---- MODULE Spec2Model ----
(***************************************************************************)
(* Model of the EV infotainment backend (backend/main.py,                  *)
(* backend/parking_module.py).                                             *)
(*                                                                         *)
(* Units.  Time is counted in tenths of a second.  Reported distances,     *)
(* temperatures and humidities are in tenths of their unit (cm, C, %).     *)
(* The raw ultrasonic echo timing is counted in units of 1/1715000 s, so   *)
(* that duration * 17150 cm/s is the raw distance in hundredths of a cm.   *)
(* Latitudes and longitudes are in units of 1e-7 degree.                   *)
(*                                                                         *)
(* Python values that may be None, a number, a string or a boolean are     *)
(* tagged tuples, so that values of different Python types can be compared.*)
(***************************************************************************)
EXTENDS Integers, Sequences, FiniteSets, TLC

VARIABLES
    \* ---- parking_module.ParkingAndCabinModule ----
    using_real,        \* self._using_real
    mock_phase,        \* self._mock_phase
    mock_age,          \* time.time() - self._last_mock_tick   (saturating)
    dht_age,           \* time.time() - self._dht_last_read_ts (saturating)
    dht_cached_temp,   \* self._dht_cached_temp
    dht_cached_hum,    \* self._dht_cached_hum
    dht_hw_reads,      \* hardware attempts made by the last _read_dht call
    park_out,          \* <<dict>> returned by the last read(), <<>> before
    \* ---- _derive_warning applied to a drawn input ----
    warn_in,
    warn_out,
    \* ---- main.GPSModule, main.BluetoothMediaController ----
    gps,               \* [current_lat, current_lon, movement_step]
    bluetooth,         \* [connected, device_name, title, position, is_playing]
    \* ---- main.EVBackendServer ----
    settings,          \* self.settings
    clients,           \* self.clients
    running,           \* self.running
    conn,              \* per websocket: "new", "acking", "open", "broken" or
                       \*   "closed"
    wire,              \* per websocket: what the server has asked it to send
    last_msg,          \* <<websocket, message, number of messages handled>>
                       \*   last given to handle_command
    reply,             \* <<message>> handle_command sent for it, <<>> if none
    bpc,               \* where broadcast_telemetry stands
    telemetry,         \* <<dict>> collect_telemetry returned last, <<>> before
    drv,               \* what each driver returned in that collect cycle
    targets,           \* the clients the current gather sends to
    results,           \* the completed sends of that gather: [ok, fail]
    sends,             \* the client.send(message) calls handed to that gather
    calls,             \* collect_telemetry and json.dumps calls of the iteration
    \* ---- the server's surroundings ----
    asked,             \* per websocket: <<>>, <<command the client has sent>> or
                       \*   <<command, first message handed to it afterwards>>
    mqtt,              \* self.mqtt: [client, connected]
    published,         \* <<payload>> given to the sink in this iteration, or <<>>
    disposed           \* parking_module.dispose() has been called

parkVars == <<using_real, mock_phase, mock_age, dht_age, dht_cached_temp,
              dht_cached_hum, dht_hw_reads, park_out>>
fnVars == <<warn_in, warn_out>>
devVars == <<gps, bluetooth>>
cmdVars == <<settings, last_msg, reply>>
connVars == <<clients, conn, wire>>
tickVars == <<bpc, telemetry, drv, targets, results, sends, calls>>
envVars == <<asked, mqtt, published, disposed>>
vars == <<parkVars, fnVars, devVars, cmdVars, connVars, tickVars, running, envVars>>

----------------------------------------------------------------------------
(* Python / JSON values *)

None == <<"null">>
Num(n) == <<"num", n>>
Str(s) == <<"str", s>>
Bool(b) == <<"bool", b>>

Missing == <<"missing">>
NonEmptyList == <<"list">>

Min(a, b) == IF a < b THEN a ELSE b

----------------------------------------------------------------------------
(* Bounds of the model *)

\* random.random() is drawn from {0, 1/RandGrain, ..., 1}
RandGrain == 2
\* _derive_warning is applied to every distance 0 .. MaxWarnInput tenths of cm
MaxWarnInput == 400
\* the websockets that may connect are 1 .. MaxConns; of these, 1 .. MaxSenders
\* send every kind of message
MaxConns == 2
MaxSenders == 1
\* collect_telemetry is not called once movement_step has reached MaxStep
MaxStep == 2
\* the server handles at most MaxCommands inbound messages
MaxCommands == 2
\* a position module on its own is read at most MaxGpsReads times
MaxGpsReads == 185

(* Program constants *)

MockPhasePeriod == 50
DhtMinSpacing == 25
DhtMaxAttempts == 3
DhtBackoff == 4
MaxPlausibleRaw == 50000
EchoStartWindow == 34300
EchoEndWindow == 68600
HighLimit == 100
MediumLimit == 200
LowLimit == 300

\* the ages saturate one step past the largest threshold they are compared to
MockAgeCap == MockPhasePeriod + 1
DhtAgeCap == DhtMinSpacing

\* random.uniform(a, b) = a + (b - a) * random.random()
Uniform(a, b) == { a + ((b - a) * k) \div RandGrain : k \in 0..RandGrain }

----------------------------------------------------------------------------
(* parking_module.py *)

\* round(distance, 1): raw hundredths to tenths
Round1(raw) == (raw + 5) \div 10

\* One echo measurement as the GPIO presents it:
\*   exc      GPIO.output / GPIO.input raises
\*   started  the echo line goes high inside the 20 ms window
\*   gap      time between the last poll of the first loop and `end = time.time()`
\*   high     time the second loop sees the line high (at most the 40 ms window)
_read_ultrasonic(real, m) ==
    IF ~real THEN None
    ELSE IF m.exc THEN None
    ELSE LET duration == m.gap + (IF m.started THEN m.high ELSE 0)
             distance == duration
         IN  IF distance <= 0 \/ distance > MaxPlausibleRaw
             THEN None
             ELSE Num(Round1(distance))

_read_gpio_bool_stuck(real, line) ==
    IF ~real THEN FALSE
    ELSE line # "low"

_read_gpio_bool(real, line) ==
    IF ~real THEN FALSE
    ELSE IF line = "fault" THEN FALSE
    ELSE line = "high"

\* One hardware attempt of the DHT11: temp / hum are None or Num, exc = raises
DhtAccepted_partial(a) == ~a.exc /\ a.temp # None

DhtAccepted(a) == ~a.exc /\ a.temp # None /\ a.hum # None

\* `now - self._dht_last_read_ts < 2.5 and <both cached values> is not None`
DhtCacheFresh_never(age, ctemp, chum) == FALSE

DhtCacheFresh(age, ctemp, chum) ==
    age < DhtMinSpacing /\ ctemp # None /\ chum # None

\* the cache after a read whose attempts all failed: the old one is kept
DhtOnExhausted_clear(ctemp, chum) == [ctemp |-> None, chum |-> None]

DhtOnExhausted(ctemp, chum) == [ctemp |-> ctemp, chum |-> chum]

\* index of the first accepted attempt, 0 when all DhtMaxAttempts fail
DhtFirstAccepted(att) ==
    IF \E i \in 1..DhtMaxAttempts : DhtAccepted(att[i])
    THEN CHOOSE i \in 1..DhtMaxAttempts :
            /\ DhtAccepted(att[i])
            /\ \A j \in 1..(i-1) : ~DhtAccepted(att[j])
    ELSE 0

\* _read_dht: the returned pair, the cache afterwards, the age of the cache
\* timestamp when the call returns and the number of hardware attempts
_read_dht(real, age, ctemp, chum, att) ==
    IF ~real
    THEN [temp |-> ctemp, hum |-> chum, ctemp |-> ctemp, chum |-> chum,
          age |-> age, hw |-> 0]
    ELSE IF DhtCacheFresh(age, ctemp, chum)
    THEN [temp |-> ctemp, hum |-> chum, ctemp |-> ctemp, chum |-> chum,
          age |-> age, hw |-> 0]
    ELSE LET k == DhtFirstAccepted(att)
             kept == DhtOnExhausted(ctemp, chum)
         IN  IF k # 0
             THEN [temp |-> att[k].temp, hum |-> att[k].hum,
                   ctemp |-> att[k].temp, chum |-> att[k].hum,
                   age |-> Min((k - 1) * DhtBackoff, DhtAgeCap), hw |-> k]
             ELSE [temp |-> kept.ctemp, hum |-> kept.chum,
                   ctemp |-> kept.ctemp, chum |-> kept.chum,
                   age |-> Min(age + DhtMaxAttempts * DhtBackoff, DhtAgeCap),
                   hw |-> DhtMaxAttempts]

\* _mock_distance: the distance, and the phase and tick age afterwards;
\* u is the numerator of random.random()
_mock_distance(phase, age, sensor_id, u) ==
    LET advance == age > MockPhasePeriod
        p == IF advance THEN (phase + 1) % 4 ELSE phase
        a == IF advance THEN 0 ELSE age
        offset == IF sensor_id = "rear_right" THEN 50 ELSE 0
        lo == CASE p = 0 -> 350 [] p = 1 -> 220 [] p = 2 -> 120 [] OTHER -> 50
        hi == CASE p = 0 -> 550 [] p = 1 -> 300 [] p = 2 -> 190 [] OTHER -> 90
    IN  [dist |-> Num((lo + offset) + ((hi - lo) * u) \div RandGrain),
         phase |-> p, age |-> a]

_mock_reverse(phase) == phase \in {2, 3}

_mock_motion_free(reverse_engaged, hit) == hit

_mock_motion(reverse_engaged, hit) == IF ~reverse_engaged THEN FALSE ELSE hit

_derive_warning_strict(distance) ==
    IF distance = None THEN None
    ELSE IF distance[2] < HighLimit THEN Str("high")
    ELSE IF distance[2] < MediumLimit THEN Str("medium")
    ELSE IF distance[2] < LowLimit THEN Str("low")
    ELSE Str("clear")

_derive_warning(distance) ==
    IF distance = None THEN None
    ELSE IF distance[2] <= HighLimit THEN Str("high")
    ELSE IF distance[2] <= MediumLimit THEN Str("medium")
    ELSE IF distance[2] <= LowLimit THEN Str("low")
    ELSE Str("clear")

\* `x if reverse_engaged else None`, and `if reverse_engaged: x = measure()`
\* after `x = None`
Gate_open(reverse_engaged, x) == x

Gate(reverse_engaged, x) == IF reverse_engaged THEN x ELSE None

\* the warning read() derives for a channel from the two measured distances
ChannelWarning_left(reverse_engaged, sensor_id, rear_left_dist, rear_right_dist) ==
    _derive_warning(Gate(reverse_engaged, rear_left_dist))

ChannelWarning(reverse_engaged, sensor_id, rear_left_dist, rear_right_dist) ==
    _derive_warning(Gate(reverse_engaged,
        IF sensor_id = "rear_left" THEN rear_left_dist ELSE rear_right_dist))

\* the dict read() returns from its try block
ReadDict(reverse_engaged, motion, rear_left_dist, rear_right_dist, temp, hum) ==
    LET rear_left_warning ==
            ChannelWarning(reverse_engaged, "rear_left", rear_left_dist, rear_right_dist)
        rear_right_warning ==
            ChannelWarning(reverse_engaged, "rear_right", rear_left_dist, rear_right_dist)
    IN  [reverse_engaged |-> reverse_engaged,
         motion_detected |-> motion,
         rear_left_distance_cm |-> Gate(reverse_engaged, rear_left_dist),
         rear_right_distance_cm |-> Gate(reverse_engaged, rear_right_dist),
         rear_left_warning |-> Gate(reverse_engaged, rear_left_warning),
         rear_right_warning |-> Gate(reverse_engaged, rear_right_warning),
         temperature_c |-> temp,
         humidity_pct |-> hum]

\* the dict read() returns from its except block
ReadSafeDefaults ==
    [reverse_engaged |-> FALSE,
     motion_detected |-> FALSE,
     rear_left_distance_cm |-> None,
     rear_right_distance_cm |-> None,
     rear_left_warning |-> None,
     rear_right_warning |-> None,
     temperature_c |-> None,
     humidity_pct |-> None]

\* read() on the real sensors.  inp: button, pir (GPIO lines), left, right
\* (echo measurements), att (DHT11 attempts), crit (an unexpected exception
\* after the sensors were read)
ReadReal(inp) ==
    LET reverse_engaged == _read_gpio_bool(using_real, inp.button)
        motion == _read_gpio_bool(using_real, inp.pir)
        rear_left_dist ==
            Gate(reverse_engaged, _read_ultrasonic(using_real, inp.left))
        rear_right_dist ==
            Gate(reverse_engaged, _read_ultrasonic(using_real, inp.right))
        d == _read_dht(using_real, dht_age, dht_cached_temp, dht_cached_hum, inp.att)
    IN  [out |-> IF inp.crit THEN ReadSafeDefaults
                 ELSE ReadDict(reverse_engaged, motion, rear_left_dist,
                               rear_right_dist, d.temp, d.hum),
         phase |-> mock_phase, mock_age |-> mock_age,
         dht_age |-> d.age, ctemp |-> d.ctemp, chum |-> d.chum, hw |-> d.hw]

\* read() on the mock generators.  inp: hit (random.random() < 0.15), ul, ur
\* (numerators of the two distance draws), temp, hum (the mock values), crit
ReadMock(inp) ==
    LET reverse_engaged == _mock_reverse(mock_phase)
        motion == _mock_motion(reverse_engaged, inp.hit)
        l == _mock_distance(mock_phase, mock_age, "rear_left", inp.ul)
        p1 == IF reverse_engaged THEN l.phase ELSE mock_phase
        a1 == IF reverse_engaged THEN l.age ELSE mock_age
        r == _mock_distance(p1, a1, "rear_right", inp.ur)
        p2 == IF reverse_engaged THEN r.phase ELSE p1
        a2 == IF reverse_engaged THEN r.age ELSE a1
        rear_left_dist == Gate(reverse_engaged, l.dist)
        rear_right_dist == Gate(reverse_engaged, r.dist)
    IN  [out |-> IF inp.crit THEN ReadSafeDefaults
                 ELSE ReadDict(reverse_engaged, motion, rear_left_dist,
                               rear_right_dist, inp.temp, inp.hum),
         phase |-> p2, mock_age |-> a2,
         dht_age |-> dht_age, ctemp |-> dht_cached_temp,
         chum |-> dht_cached_hum, hw |-> dht_hw_reads]

\* ParkingAndCabinModule.read(): the result and the module's fields afterwards
read(inp) == IF using_real THEN ReadReal(inp) ELSE ReadMock(inp)

\* the module's fields after a call of read(); park_out is set by the caller
ParkingFieldsAfter(r) ==
    /\ mock_phase' = r.phase
    /\ mock_age' = r.mock_age
    /\ dht_age' = r.dht_age
    /\ dht_cached_temp' = r.ctemp
    /\ dht_cached_hum' = r.chum
    /\ dht_hw_reads' = r.hw
    /\ UNCHANGED using_real

----------------------------------------------------------------------------
(* main.py: GPSModule *)

base_lat == 284595000
base_lon == 770266000
RouteStepsPerPoint == 10

route_points ==
    << <<284595000, 770266000>>, <<284605000, 770276000>>,
       <<284615000, 770286000>>, <<284625000, 770296000>>,
       <<284635000, 770306000>>, <<284645000, 770316000>> >>

\* x * 0.1
Tenth(x) == IF x >= 0 THEN x \div 10 ELSE -((-x) \div 10)

\* round(x, 6) of a value in units of 1e-7
Round6(x) == ((x + 5) \div 10) * 10

\* GPSModule.read(): the fields afterwards and the returned dict.
\* gi: nlat, nlon (the random jitter), altitude, satellites, speed_gps
gps_read_drifting(g, gi) ==
    LET point_index == (g.movement_step \div RouteStepsPerPoint) % Len(route_points)
        target_lat == route_points[point_index + 1][1]
        target_lon == route_points[point_index + 1][2]
        lat == g.current_lat + Tenth(target_lat - g.current_lat) + gi.nlat
        lon == g.current_lon + Tenth(target_lon - g.current_lon) + gi.nlon
        step == g.movement_step + 1
    IN  [gps |-> [current_lat |-> lat, current_lon |-> lon, movement_step |-> step],
         out |-> [latitude |-> Round6(lat),
                  longitude |-> Round6(lon),
                  heading |-> (step * 2) % 360,
                  altitude |-> gi.altitude,
                  satellites |-> gi.satellites,
                  speed_gps |-> gi.speed_gps]]

gps_read(g, gi) ==
    LET point_index == (g.movement_step \div RouteStepsPerPoint) % Len(route_points)
        target_lat == route_points[point_index + 1][1]
        target_lon == route_points[point_index + 1][2]
        lat == g.current_lat + Tenth(target_lat - g.current_lat)
        lon == g.current_lon + Tenth(target_lon - g.current_lon)
        step == g.movement_step + 1
    IN  [gps |-> [current_lat |-> lat, current_lon |-> lon, movement_step |-> step],
         out |-> [latitude |-> Round6(lat + gi.nlat),
                  longitude |-> Round6(lon + gi.nlon),
                  heading |-> (step * 2) % 360,
                  altitude |-> gi.altitude,
                  satellites |-> gi.satellites,
                  speed_gps |-> gi.speed_gps]]

----------------------------------------------------------------------------
(* main.py: BluetoothMediaController *)

TrackDuration == 180

bt_play(bt) == [bt EXCEPT !.is_playing = TRUE]
bt_pause(bt) == [bt EXCEPT !.is_playing = FALSE]
\* n is random.randint(1, 100)
bt_next_track(bt, n) == [bt EXCEPT !.position = 0, !.title = <<"Track", n>>]
bt_previous_track(bt, n) == [bt EXCEPT !.position = 0, !.title = <<"Track", n>>]
bt_set_volume(bt, volume) == bt
bt_connect_device(bt, device_address) ==
    [bt EXCEPT !.connected = TRUE, !.device_name = "Mock Phone"]

\* get_status(): the controller afterwards and the returned dict
get_status_unclamped(bt) ==
    LET b == IF bt.is_playing
             THEN [bt EXCEPT !.position = bt.position + 1]
             ELSE bt
    IN  [bluetooth |-> b,
         out |-> [connected |-> b.connected,
                  device_name |-> b.device_name,
                  track_title |-> b.title,
                  track_artist |-> "Unknown Artist",
                  duration |-> TrackDuration,
                  position |-> b.position,
                  is_playing |-> b.is_playing]]

get_status(bt) ==
    LET b == IF bt.is_playing
             THEN [bt EXCEPT !.position = Min(bt.position + 1, TrackDuration)]
             ELSE bt
    IN  [bluetooth |-> b,
         out |-> [connected |-> b.connected,
                  device_name |-> b.device_name,
                  track_title |-> b.title,
                  track_artist |-> "Unknown Artist",
                  duration |-> TrackDuration,
                  position |-> b.position,
                  is_playing |-> b.is_playing]]

----------------------------------------------------------------------------
(* main.py: EVBackendServer, command handling *)

VALID_COMMANDS_open ==
    {"play_music", "pause_music", "next_track", "previous_track",
     "set_volume", "set_charge_limit", "set_regen_level",
     "set_drive_mode", "set_brightness", "set_theme",
     "toggle_predictions", "set_twin_mode", "connect_bluetooth",
     "update_gps", "drive_warp"}

VALID_COMMANDS ==
    {"play_music", "pause_music", "next_track", "previous_track",
     "set_volume", "set_charge_limit", "set_regen_level",
     "set_drive_mode", "set_brightness", "set_theme",
     "toggle_predictions", "set_twin_mode", "connect_bluetooth",
     "update_gps"}

SettingKeys ==
    {"charge_limit", "regen_level", "drive_mode", "brightness",
     "light_theme", "predictions_on", "twin_mode"}

DefaultSettings ==
    [charge_limit |-> Num(80), regen_level |-> Str("standard"),
     drive_mode |-> Str("eco"), brightness |-> Num(60),
     light_theme |-> Bool(FALSE), predictions_on |-> Bool(TRUE),
     twin_mode |-> Str("3d")]

Setters ==
    {"set_charge_limit", "set_regen_level", "set_drive_mode", "set_brightness",
     "set_theme", "toggle_predictions", "set_twin_mode"}

\* the settings key a setter action writes
SetterKey_shared(action) == "brightness"

SetterKey(action) ==
    CASE action = "set_charge_limit" -> "charge_limit"
      [] action = "set_regen_level" -> "regen_level"
      [] action = "set_drive_mode" -> "drive_mode"
      [] action = "set_brightness" -> "brightness"
      [] action = "set_theme" -> "light_theme"
      [] action = "toggle_predictions" -> "predictions_on"
      [] action = "set_twin_mode" -> "twin_mode"

\* the default of data.get('value', default) in a setter
SetterDefault_none(action) == None

SetterDefault(action) ==
    CASE action = "set_charge_limit" -> Num(80)
      [] action = "set_regen_level" -> Str("standard")
      [] action = "set_drive_mode" -> Str("eco")
      [] action = "set_brightness" -> Num(60)
      [] action = "set_theme" -> Bool(FALSE)
      [] action = "toggle_predictions" -> Bool(TRUE)
      [] action = "set_twin_mode" -> Str("3d")

\* data.get(key, default); a message dict has every key, Missing when absent
Get(data, key, default) == IF data[key] = Missing THEN default ELSE data[key]

\* Python truthiness of a JSON value
Truthy(x) ==
    CASE x = None -> FALSE
      [] x[1] = "str" -> x[2] # ""
      [] x[1] = "num" -> x[2] # 0
      [] x[1] = "bool" -> x[2]
      [] OTHER -> TRUE

\* `action in self.VALID_COMMANDS`
InValidCommands(action) == action[1] = "str" /\ action[2] \in VALID_COMMANDS

\* format(x, '.6f') succeeds
Formattable(x) == x[1] \in {"num", "bool"}

Response(action, status, value) ==
    [type |-> "response", action |-> action, status |-> status,
     value |-> value, message |-> <<>>]

Error(message) ==
    [type |-> "error", action |-> "", status |-> "", value |-> Missing,
     message |-> message]

\* the value a setter stores and echoes
SetterValue_default(action, data) == SetterDefault(action)

SetterValue(action, data) == Get(data, "value", SetterDefault(action))

\* `self.gps.current_lat = lat; self.gps.current_lon = lon`: two assignments
\* with no await between them
StoreFix_torn(g, lat, lon) == [g EXCEPT !.current_lat = lat]

StoreFix(g, lat, lon) == [g EXCEPT !.current_lat = lat, !.current_lon = lon]

\* execute_command: st holds settings, bluetooth and gps; n is the random
\* track number.  raised: the call ends in an exception
execute_command(st, action, data, n) ==
    LET ok(s, status, value) ==
            [settings |-> s.settings, bluetooth |-> s.bluetooth, gps |-> s.gps,
             raised |-> FALSE, response |-> Response(action, status, value)]
    IN  CASE action = "play_music" ->
                ok([st EXCEPT !.bluetooth = bt_play(st.bluetooth)], "success", Missing)
          [] action = "pause_music" ->
                ok([st EXCEPT !.bluetooth = bt_pause(st.bluetooth)], "success", Missing)
          [] action = "next_track" ->
                ok([st EXCEPT !.bluetooth = bt_next_track(st.bluetooth, n)],
                   "success", Missing)
          [] action = "previous_track" ->
                ok([st EXCEPT !.bluetooth = bt_previous_track(st.bluetooth, n)],
                   "success", Missing)
          [] action = "set_volume" ->
                ok([st EXCEPT !.bluetooth =
                        bt_set_volume(st.bluetooth, Get(data, "volume", Num(5)))],
                   "success", Missing)
          [] action \in Setters ->
                LET v == SetterValue(action, data)
                IN  ok([st EXCEPT !.settings[SetterKey(action)] = v], "success", v)
          [] action = "connect_bluetooth" ->
                ok([st EXCEPT !.bluetooth =
                        bt_connect_device(st.bluetooth,
                                          Get(data, "device_address", Str("")))],
                   "success", Missing)
          [] action = "update_gps" ->
                LET lat == Get(data, "latitude", None)
                    lon == Get(data, "longitude", None)
                IN  IF lat # None /\ lon # None
                    THEN IF Formattable(lat) /\ Formattable(lon)
                         THEN ok([st EXCEPT !.gps = StoreFix(st.gps, lat[2], lon[2])],
                                 "success", Missing)
                         ELSE [settings |-> st.settings, bluetooth |-> st.bluetooth,
                               gps |-> st.gps, raised |-> TRUE,
                               response |-> Error(<<"exception">>)]
                    ELSE ok(st, "success", Missing)
          [] OTHER -> ok(st, "unknown", Missing)

\* the rejection branches of handle_command: nothing but the error message
Reject_kick(st, cl, websocket, m) ==
    [settings |-> st.settings, bluetooth |-> st.bluetooth, gps |-> st.gps,
     clients |-> cl \ {websocket}, sent |-> m]

Reject(st, cl, websocket, m) ==
    [settings |-> st.settings, bluetooth |-> st.bluetooth, gps |-> st.gps,
     clients |-> cl, sent |-> m]

\* handle_command: the server's fields afterwards and the one message it sends
\* to the websocket.  message: [kind, data], kind "badjson" (json.loads
\* raises), "nondict" (valid JSON, not an object) or "dict"
handle_command(st, cl, websocket, message, n) ==
    IF message.kind = "badjson"
    THEN Reject(st, cl, websocket, Error(<<"Invalid JSON format">>))
    ELSE IF message.kind = "nondict"
    THEN Reject(st, cl, websocket, Error(<<"exception">>))
    ELSE LET data == message.data
             action == Get(data, "action", None)
         IN  IF ~Truthy(action)
             THEN Reject(st, cl, websocket, Error(<<"Invalid action: ", action>>))
             ELSE IF action = NonEmptyList
             THEN Reject(st, cl, websocket, Error(<<"exception">>))
             ELSE IF ~InValidCommands(action)
             THEN Reject(st, cl, websocket, Error(<<"Invalid action: ", action>>))
             ELSE LET r == execute_command(st, action[2], data, n)
                  IN  [settings |-> r.settings, bluetooth |-> r.bluetooth,
                       gps |-> r.gps, clients |-> cl, sent |-> r.response]

----------------------------------------------------------------------------
(* main.py: EVBackendServer.collect_telemetry *)

NeutralVehicle ==
    [speed |-> 0, battery_soc |-> 0, battery_voltage |-> 0, battery_current |-> 0,
     motor_rpm |-> 0, motor_temp |-> 0, range_km |-> 0, power_kw |-> 0]

NeutralGps ==
    [latitude |-> 284595000, longitude |-> 770266000, heading |-> 0,
     altitude |-> 2400, satellites |-> 0, speed_gps |-> 0]

NeutralMedia ==
    [connected |-> FALSE, device_name |-> "Error",
     track_title |-> <<"No Track Playing", 0>>, track_artist |-> "Unknown Artist",
     duration |-> 0, position |-> 0, is_playing |-> FALSE]

\* parking_data when parking_module.read() raises
ParkingFallback ==
    [reverse_engaged |-> FALSE, motion_detected |-> FALSE, distance_cm |-> None,
     proximity_warning |-> None, temperature_c |-> None, humidity_pct |-> None]

NeutralParking ==
    [reverse_engaged |-> FALSE, motion_detected |-> FALSE, distance_cm |-> None,
     proximity_warning |-> None]

tire_pressure == [front_left |-> 352, front_right |-> 351,
                  rear_left |-> 349, rear_right |-> 350]
battery_cells == [block_a |-> 285, block_b |-> 291, block_c |-> 290]

\* the dict of the outer except block
FallbackTelemetry(s) ==
    [type |-> "telemetry",
     ambient_temp |-> None, humidity |-> None,
     cabin |-> [temperature_c |-> None, humidity_pct |-> None],
     speed |-> 0, range_km |-> 0, battery_soc |-> 0, battery_voltage |-> 0,
     battery_current |-> 0, battery_soh |-> 0, motor_rpm |-> 0, motor_temp |-> 0,
     power_kw |-> 0,
     gps |-> NeutralGps,
     tire_pressure |-> [front_left |-> 0, front_right |-> 0,
                        rear_left |-> 0, rear_right |-> 0],
     battery_cells |-> [block_a |-> 0, block_b |-> 0, block_c |-> 0],
     connectivity |-> [wifi |-> FALSE, bluetooth |-> FALSE, can_bus |-> FALSE],
     media |-> NeutralMedia,
     parking |-> NeutralParking,
     settings |-> s]

\* the outer except block: what collect_telemetry does on an unexpected failure
OnCollectFailure_raise(s) == [raised |-> TRUE, telemetry |-> FallbackTelemetry(s)]

OnCollectFailure(s) == [raised |-> FALSE, telemetry |-> FallbackTelemetry(s)]

\* d[key] raises KeyError
KeyError(d, key) == key \notin DOMAIN d

\* the dict literal of the try block; it is only built when no lookup fails
ComposeTelemetry(parking_data, vehicle_data, gps_data, media_status, bt, s, ci) ==
    LET cabin_temp == parking_data.temperature_c
        cabin_humidity == parking_data.humidity_pct
        dht_temperature == parking_data.temperature_c
        dht_humidity == parking_data.humidity_pct
    IN  [type |-> "telemetry",
         ambient_temp |-> cabin_temp, humidity |-> cabin_humidity,
         cabin |-> [temperature_c |->
                        IF cabin_temp # None THEN cabin_temp
                        ELSE IF Truthy(dht_temperature)
                             THEN Num(dht_temperature[2] - 20) ELSE None,
                    humidity_pct |->
                        IF cabin_humidity # None THEN cabin_humidity
                        ELSE dht_humidity],
         speed |-> vehicle_data.speed, range_km |-> vehicle_data.range_km,
         battery_soc |-> vehicle_data.battery_soc,
         battery_voltage |-> vehicle_data.battery_voltage,
         battery_current |-> vehicle_data.battery_current,
         battery_soh |-> ci.soh,
         motor_rpm |-> vehicle_data.motor_rpm,
         motor_temp |-> vehicle_data.motor_temp,
         power_kw |-> vehicle_data.power_kw,
         gps |-> gps_data,
         tire_pressure |-> tire_pressure,
         battery_cells |-> battery_cells,
         connectivity |-> [wifi |-> ci.wifi, bluetooth |-> bt.connected,
                           can_bus |-> FALSE],
         media |-> media_status,
         parking |-> [reverse_engaged |-> parking_data.reverse_engaged,
                      motion_detected |-> parking_data.motion_detected,
                      distance_cm |-> parking_data.distance_cm,
                      proximity_warning |-> parking_data.proximity_warning],
         settings |-> s]

\* collect_telemetry.  ci: park (the sensors' input to read()), can (the
\* vehicle reading), gi (the GPS draws), soh, wifi (random draws) and
\* park_fault, can_fault, gps_fault, bt_fault (the driver call raises).
\* Returns the dict (or raised), the drivers' fields afterwards and what each
\* driver returned (<<>> when it raised).
collect_telemetry(ci) ==
    LET pr == read(ci.park)
        parking_data == IF ci.park_fault THEN ParkingFallback ELSE pr.out
        vehicle_data == IF ci.can_fault THEN NeutralVehicle ELSE ci.can
        gr == gps_read(gps, ci.gi)
        gps_data == IF ci.gps_fault THEN NeutralGps ELSE gr.out
        mr == get_status(bluetooth)
        media_status == IF ci.bt_fault THEN NeutralMedia ELSE mr.out
        bt == IF ci.bt_fault THEN bluetooth ELSE mr.bluetooth
        failed == \/ KeyError(parking_data, "distance_cm")
                  \/ KeyError(parking_data, "proximity_warning")
        res == IF failed THEN OnCollectFailure(settings)
               ELSE [raised |-> FALSE,
                     telemetry |-> ComposeTelemetry(parking_data, vehicle_data,
                                       gps_data, media_status, bt, settings, ci)]
    IN  [raised |-> res.raised,
         telemetry |-> res.telemetry,
         park |-> pr,
         gps |-> IF ci.gps_fault THEN gps ELSE gr.gps,
         bluetooth |-> bt,
         drv |-> [parking |-> IF ci.park_fault THEN <<>> ELSE <<pr.out>>,
                  vehicle |-> IF ci.can_fault THEN <<>> ELSE <<ci.can>>,
                  gps |-> IF ci.gps_fault THEN <<>> ELSE <<gr.out>>,
                  media |-> IF ci.bt_fault THEN <<>> ELSE <<mr.out>>]]

\* the state change of one collect_telemetry call
Collect(ci) ==
    LET c == collect_telemetry(ci)
    IN  /\ IF ci.park_fault
           THEN UNCHANGED parkVars
           ELSE ParkingFieldsAfter(c.park) /\ park_out' = <<c.park.out>>
        /\ gps' = c.gps
        /\ bluetooth' = c.bluetooth
        /\ telemetry' = IF c.raised THEN <<>> ELSE <<c.telemetry>>
        /\ drv' = c.drv

----------------------------------------------------------------------------
(* Inputs *)

Conns == 1..MaxConns
Senders == 1..Min(MaxSenders, MaxConns)

GpioLines == {"low", "high", "fault"}

EchoFault == [exc |-> TRUE, started |-> FALSE, gap |-> 0, high |-> 0]
NoEcho(gap) == [exc |-> FALSE, started |-> FALSE, gap |-> gap, high |-> 0]
Echo(gap, high) == [exc |-> FALSE, started |-> TRUE, gap |-> gap, high |-> high]

EchoInputs ==
    {EchoFault, NoEcho(0), NoEcho(4), Echo(2, 1498), Echo(2, 49998),
     Echo(2, EchoEndWindow)}

DhtOkA == [exc |-> FALSE, temp |-> Num(245), hum |-> Num(500)]
DhtOkB == [exc |-> FALSE, temp |-> Num(262), hum |-> Num(455)]
DhtTempOnly == [exc |-> FALSE, temp |-> Num(250), hum |-> None]
DhtRaises == [exc |-> TRUE, temp |-> None, hum |-> None]

DhtAttemptSeqs ==
    {<<DhtOkA, DhtOkA, DhtOkA>>, <<DhtRaises, DhtOkB, DhtOkA>>,
     <<DhtTempOnly, DhtRaises, DhtOkA>>, <<DhtRaises, DhtTempOnly, DhtRaises>>}

MockTemps == { Num(t) : t \in Uniform(235, 285) }
MockHums == { Num(h) : h \in Uniform(480, 600) }

\* the sensors' input to one read(), for a module on its own
RealInputs ==
    [button : GpioLines, pir : {"low", "high"}, left : EchoInputs,
     right : {EchoFault, NoEcho(4), Echo(2, 2998)}, att : DhtAttemptSeqs,
     crit : {FALSE}]
    \cup
    [button : {"high"}, pir : {"high"}, left : {Echo(2, 1498)},
     right : {Echo(2, 2998)}, att : {<<DhtOkA, DhtOkA, DhtOkA>>}, crit : {TRUE}]

MockInputs ==
    [hit : BOOLEAN, ul : 0..RandGrain, ur : 0..RandGrain,
     temp : MockTemps, hum : MockHums, crit : {FALSE}]
    \cup
    [hit : {TRUE}, ul : {0}, ur : {0}, temp : {Num(235)}, hum : {Num(480)},
     crit : {TRUE}]

\* the same inside one collect cycle of the aggregator on its own
CollectRealInputs ==
    [button : {"low", "high"}, pir : {"high"},
     left : {NoEcho(4), Echo(2, 1498)}, right : {Echo(2, 49998)},
     att : {<<DhtOkA, DhtOkA, DhtOkA>>, <<DhtRaises, DhtTempOnly, DhtRaises>>},
     crit : {FALSE}]

CollectMockInputs ==
    [hit : BOOLEAN, ul : {0}, ur : {RandGrain},
     temp : {Num(235), Num(285)}, hum : {Num(480)}, crit : {FALSE}]

\* the same inside one broadcast tick of the server
TickRealInputs ==
    [button : {"high"}, pir : {"low"}, left : {Echo(2, 1498)},
     right : {NoEcho(4)}, att : {<<DhtOkA, DhtOkA, DhtOkA>>}, crit : {FALSE}]

TickMockInputs ==
    [hit : {TRUE}, ul : {0}, ur : {0}, temp : {Num(235)}, hum : {Num(480)},
     crit : {FALSE}]

VehicleA ==
    [speed |-> 653, battery_soc |-> 781, battery_voltage |-> 4012,
     battery_current |-> -125, motor_rpm |-> 3200, motor_temp |-> 712,
     range_km |-> 301, power_kw |-> 455]

VehicleB ==
    [speed |-> 0, battery_soc |-> 950, battery_voltage |-> 4200,
     battery_current |-> 0, motor_rpm |-> 0, motor_temp |-> 600,
     range_km |-> 350, power_kw |-> 0]

GpsDraws ==
    [nlat : {1000}, nlon : {-1000}, altitude : {2356}, satellites : {9},
     speed_gps : {421}]

\* which driver calls raise: none, one of them, or all four
FaultSets ==
    { f \in [park_fault : BOOLEAN, can_fault : BOOLEAN, gps_fault : BOOLEAN,
              bt_fault : BOOLEAN] :
        Cardinality({ k \in DOMAIN f : f[k] }) \in {0, 1, 4} }

CollectInputs ==
    { [park |-> pk, can |-> cn, gi |-> g, soh |-> 970, wifi |-> TRUE,
       park_fault |-> f.park_fault, can_fault |-> f.can_fault,
       gps_fault |-> f.gps_fault, bt_fault |-> f.bt_fault] :
        pk \in (IF using_real THEN CollectRealInputs ELSE CollectMockInputs),
        cn \in {VehicleA, VehicleB}, g \in GpsDraws, f \in FaultSets }

TickInputs ==
    [park : IF using_real THEN TickRealInputs ELSE TickMockInputs,
     can : {VehicleA}, gi : GpsDraws, soh : {970}, wifi : {TRUE},
     park_fault : BOOLEAN, can_fault : {FALSE}, gps_fault : {FALSE},
     bt_fault : {FALSE}]

EmptyData ==
    [action |-> Missing, value |-> Missing, volume |-> Missing,
     device_address |-> Missing, latitude |-> Missing, longitude |-> Missing]

BadJson == [kind |-> "badjson", data |-> EmptyData]
NonDict == [kind |-> "nondict", data |-> EmptyData]
Dict(d) == [kind |-> "dict", data |-> d]

\* a value other than the default for each setter
AltValue(action) ==
    CASE action = "set_charge_limit" -> Num(90)
      [] action = "set_regen_level" -> Str("high")
      [] action = "set_drive_mode" -> Str("sport")
      [] action = "set_brightness" -> Num(75)
      [] action = "set_theme" -> Bool(TRUE)
      [] action = "toggle_predictions" -> Bool(FALSE)
      [] action = "set_twin_mode" -> Str("2d")

RejectedActions ==
    {Missing, None, Str(""), Str("drive_warp"), Num(5), NonEmptyList}

RejectedMessages ==
    {BadJson, NonDict} \cup
    { Dict([EmptyData EXCEPT !.action = a]) : a \in RejectedActions }

SetterMessages ==
    { Dict([EmptyData EXCEPT !.action = Str(a), !.value = AltValue(a)]) :
        a \in Setters } \cup
    { Dict([EmptyData EXCEPT !.action = Str(a)]) : a \in Setters } \cup
    { Dict([EmptyData EXCEPT !.action = Str("set_brightness"), !.value = v]) :
        v \in {Num(30), None} }

MediaMessages ==
    { Dict([EmptyData EXCEPT !.action = Str(a)]) :
        a \in {"play_music", "pause_music", "next_track", "previous_track",
               "connect_bluetooth"} } \cup
    { Dict([EmptyData EXCEPT !.action = Str("set_volume"), !.volume = Num(7)]) }

\* the fix a client reports in update_gps (1e-7 degrees)
ClientFix == [latitude |-> 284700000, longitude |-> 770400000]

GpsMessages ==
    { Dict([EmptyData EXCEPT !.action = Str("update_gps"),
                             !.latitude = Num(ClientFix.latitude),
                             !.longitude = Num(ClientFix.longitude)]),
      Dict([EmptyData EXCEPT !.action = Str("update_gps"),
                             !.latitude = Num(ClientFix.latitude)]),
      Dict([EmptyData EXCEPT !.action = Str("update_gps"),
                             !.latitude = Str("north"),
                             !.longitude = Num(ClientFix.longitude)]) }

Messages == RejectedMessages \cup SetterMessages \cup MediaMessages \cup GpsMessages

TrackNumbers == {1, 2}

----------------------------------------------------------------------------
(* Initial state: the objects as their constructors leave them *)

InitParking ==
    /\ using_real \in BOOLEAN
    /\ mock_phase = 0
    /\ mock_age = 0
    /\ dht_age = DhtAgeCap
    /\ dht_cached_temp = None
    /\ dht_cached_hum = None
    /\ dht_hw_reads = 0
    /\ park_out = <<>>

InitDevices ==
    /\ gps = [current_lat |-> base_lat, current_lon |-> base_lon,
              movement_step |-> 0]
    /\ bluetooth = [connected |-> FALSE, device_name |-> "No Device",
                    title |-> <<"No Track Playing", 0>>, position |-> 0,
                    is_playing |-> FALSE]

InitServer ==
    /\ settings = DefaultSettings
    /\ clients = {}
    /\ running = FALSE
    /\ conn = [c \in Conns |-> "new"]
    /\ wire = [c \in Conns |-> [first |-> "", acks |-> 0]]
    /\ last_msg = <<>>
    /\ reply = <<>>
    /\ bpc = "init"
    /\ telemetry = <<>>
    /\ drv = [parking |-> <<>>, vehicle |-> <<>>, gps |-> <<>>, media |-> <<>>]
    /\ targets = {}
    /\ results = [ok |-> {}, fail |-> {}]
    /\ sends = {}
    /\ calls = [collect |-> 0, dumps |-> 0]
    /\ asked = [c \in Conns |-> <<>>]
    /\ mqtt = [client |-> FALSE, connected |-> FALSE]
    /\ published = <<>>
    /\ disposed = FALSE

Init ==
    /\ InitParking /\ InitDevices /\ InitServer
    /\ warn_in = None /\ warn_out = <<>>

----------------------------------------------------------------------------
(* The parking module on its own *)

\* wall-clock time advances by dt; only the age the module's mode reads is kept
TimePasses(dt) ==
    /\ IF using_real
       THEN dht_age' = Min(dht_age + dt, DhtAgeCap) /\ UNCHANGED mock_age
       ELSE mock_age' = Min(mock_age + dt, MockAgeCap) /\ UNCHANGED dht_age
    /\ UNCHANGED <<using_real, mock_phase, dht_cached_temp, dht_cached_hum,
                   dht_hw_reads, park_out>>

Tick == TimePasses(1) /\ UNCHANGED <<fnVars, devVars, cmdVars, connVars, tickVars, running, envVars>>

\* one call of read() with the sensors' input drawn from a set
ParkingReadFrom(inputs) ==
    \E inp \in inputs :
        LET r == read(inp)
        IN  /\ ParkingFieldsAfter(r)
            /\ park_out' = <<r.out>>
            /\ UNCHANGED <<fnVars, devVars, cmdVars, connVars, tickVars, running, envVars>>

ParkingRead == ParkingReadFrom(IF using_real THEN RealInputs ELSE MockInputs)

NextParking == ParkingRead \/ Tick

SpecParking == Init /\ [][NextParking]_vars

----------------------------------------------------------------------------
(* The environmental sensor of a module on the real sensors: read() with the
   reverse line low, so that only the DHT11 is sampled *)

DhtInput(att, pir) ==
    [button |-> "low", pir |-> pir, left |-> EchoFault, right |-> EchoFault,
     att |-> att, crit |-> FALSE]

\* read() while the DHT11 answers its attempts with att
DhtReadWith(att) == ParkingReadFrom({ DhtInput(att, pir) : pir \in {"low", "high"} })

DhtRead == \E att \in DhtAttemptSeqs : DhtReadWith(att)

InitPi == Init /\ using_real

NextDht == DhtRead \/ Tick

SpecDht == InitPi /\ [][NextDht]_vars

----------------------------------------------------------------------------
(* read() on the real sensors while lines, measurements and the rest of the
   call may fail; the DHT11 either answers at once or fails every time *)

FaultInputs ==
    [button : GpioLines, pir : {"low", "high"}, left : {EchoFault, Echo(2, 1498)},
     right : {EchoFault, Echo(2, 2998)},
     att : {<<DhtOkA, DhtOkA, DhtOkA>>, <<DhtRaises, DhtTempOnly, DhtRaises>>},
     crit : {FALSE}]
    \cup
    [button : {"high"}, pir : {"high"}, left : {Echo(2, 1498)},
     right : {Echo(2, 2998)}, att : {<<DhtOkA, DhtOkA, DhtOkA>>}, crit : {TRUE}]

FaultRead == ParkingReadFrom(FaultInputs)

NextFault == FaultRead \/ Tick

SpecFault == InitPi /\ [][NextFault]_vars

----------------------------------------------------------------------------
(* _derive_warning on its own *)

WarnInputs == {None} \cup { Num(d) : d \in 0..MaxWarnInput }

InitWarn ==
    /\ InitParking /\ InitDevices /\ InitServer
    /\ warn_in \in WarnInputs /\ warn_out = <<>>

ApplyDerive ==
    /\ warn_out = <<>>
    /\ warn_out' = <<_derive_warning(warn_in)>>
    /\ UNCHANGED <<warn_in, parkVars, devVars, cmdVars, connVars, tickVars, running, envVars>>

NextWarn == ApplyDerive

SpecWarn == InitWarn /\ [][NextWarn]_vars

----------------------------------------------------------------------------
(* The aggregator on its own: collect cycles one second apart *)

CollectCycle ==
    /\ gps.movement_step < MaxStep
    /\ \E ci \in CollectInputs : Collect(ci)
    /\ UNCHANGED <<fnVars, cmdVars, connVars, bpc, targets, results, sends,
                   calls, running, envVars>>

Second == TimePasses(10) /\ UNCHANGED <<fnVars, devVars, cmdVars, connVars, tickVars, running, envVars>>

NextCollect == CollectCycle \/ Second

SpecCollect == Init /\ [][NextCollect]_vars

----------------------------------------------------------------------------
(* The server: connections, commands and the broadcast loop *)

\* start(): the server accepts connections and the broadcast task is created
Start ==
    /\ ~running /\ bpc = "init"
    /\ running' = TRUE
    /\ bpc' = "wake"
    /\ UNCHANGED <<parkVars, fnVars, devVars, cmdVars, connVars,
                   telemetry, drv, targets, results, sends, calls, envVars>>

\* websocket.send(msg) is called on connection c: the message is handed to the
\* connection in the order of the calls
ws_send(w, c, type) ==
    [w EXCEPT ![c] = [first |-> IF @.first = "" THEN type ELSE @.first,
                      acks |-> IF type = "connection" THEN @.acks + 1 ELSE @.acks]]

\* the initial connection confirmation of handle_client
ConnectionAck_typo == [type |-> "connected", status |-> "connected"]
ConnectionAck == [type |-> "connection", status |-> "connected"]

\* self.clients.add(websocket), the first statement of handle_client
Register_late(cl, websocket) == cl
Register(cl, websocket) == cl \cup {websocket}

\* self.clients.discard(websocket), the finally block of handle_client
Unregister_leak(cl, websocket) == cl
Unregister(cl, websocket) == cl \ {websocket}

\* handle_client up to its receive loop: register, send the acknowledgement;
\* when that send raises the handler ends and its finally block unregisters
Connect(c, ack_ok) ==
    /\ running /\ conn[c] = "new"
    /\ IF ack_ok
       THEN clients' = Register(clients, c) /\ conn' = [conn EXCEPT ![c] = "open"]
       ELSE clients' = Unregister(Register(clients, c), c)
            /\ conn' = [conn EXCEPT ![c] = "closed"]
    /\ wire' = ws_send(wire, c, ConnectionAck.type)
    /\ UNCHANGED <<parkVars, fnVars, devVars, cmdVars, tickVars, running, envVars>>

\* handle_client from its start to the await of the acknowledgement's send
HandlerStart(c) ==
    /\ running /\ conn[c] = "new"
    /\ clients' = Register(clients, c)
    /\ wire' = ws_send(wire, c, ConnectionAck.type)
    /\ conn' = [conn EXCEPT ![c] = "acking"]
    /\ UNCHANGED <<parkVars, fnVars, devVars, cmdVars, tickVars, running, envVars>>

\* the acknowledgement's send returns and the receive loop is entered, or it
\* raises and the handler ends through its finally block
AckDone(c, ack_ok) ==
    /\ conn[c] = "acking"
    /\ IF ack_ok
       THEN clients' = clients /\ conn' = [conn EXCEPT ![c] = "open"]
       ELSE clients' = Unregister(clients, c)
            /\ conn' = [conn EXCEPT ![c] = "closed"]
    /\ UNCHANGED <<parkVars, fnVars, devVars, cmdVars, wire, tickVars, running, envVars>>

\* the peer goes away; the handler has not yet seen it
TransportBreak(c) ==
    /\ conn[c] = "open"
    /\ conn' = [conn EXCEPT ![c] = "broken"]
    /\ UNCHANGED <<parkVars, fnVars, devVars, cmdVars, clients, wire, tickVars,
                   running, envVars>>

\* handle_client ends (normal close or connection error): finally block
HandlerEnd(c) ==
    /\ conn[c] \in {"open", "broken"}
    /\ clients' = Unregister(clients, c)
    /\ conn' = [conn EXCEPT ![c] = "closed"]
    /\ UNCHANGED <<parkVars, fnVars, devVars, cmdVars, wire, tickVars, running, envVars>>

Handled == IF last_msg = <<>> THEN 0 ELSE last_msg[3]

\* the messages a client may send, each with the random track number drawn
\* while it is handled
CommandInputs ==
    { <<m, n>> \in Messages \X TrackNumbers :
        n = 1 \/ m.data.action \in {Str("next_track"), Str("previous_track")} }

\* a message of this type and status is delivered to client c: it is the
\* first one after the command the client has sent, or not
Receives(a, c, type, status) ==
    IF Len(a[c]) = 1
    THEN [a EXCEPT ![c] = Append(@, [type |-> type, status |-> status])]
    ELSE a

\* a client whose last command has been answered sends the next one
ClientSends(c, m) ==
    /\ conn[c] = "open"
    /\ Len(asked[c]) # 1
    /\ asked' = [asked EXCEPT ![c] = <<m>>]
    /\ UNCHANGED <<parkVars, fnVars, devVars, cmdVars, connVars, tickVars,
                   running, mqtt, published, disposed>>

\* one iteration of handle_client's receive loop: handle_command(c, m); the
\* message it sends reaches the client unless the transport is broken
Command(c, m, n) ==
    /\ conn[c] \in {"open", "broken"}
    /\ Handled < MaxCommands
    /\ LET st == [settings |-> settings, bluetooth |-> bluetooth, gps |-> gps]
           r == handle_command(st, clients, c, m, n)
       IN  /\ settings' = r.settings
           /\ bluetooth' = r.bluetooth
           /\ gps' = r.gps
           /\ clients' = r.clients
           /\ last_msg' = <<c, m, Handled + 1>>
           /\ reply' = IF conn[c] = "open" THEN <<[to |-> c, msg |-> r.sent]>>
                       ELSE <<>>
           /\ wire' = ws_send(wire, c, r.sent.type)
           /\ asked' = IF conn[c] = "open"
                       THEN Receives(asked, c, r.sent.type, r.sent.status)
                       ELSE asked
    /\ UNCHANGED <<parkVars, fnVars, conn, tickVars, running, mqtt, published,
                   disposed>>

\* the clients after the loop over the gather results: failures are only logged
AfterGather_discard(cl, failed) == cl \ failed
AfterGather(cl, failed) == cl

\* message = json.dumps(telemetry): the text of the snapshot
json_dumps(t) == <<"json", t>>

\* the json.dumps calls of one iteration: inside `if self.clients:`, once
Serialisations_each(cl) == Cardinality(cl)
Serialisations(cl) == IF cl # {} THEN 1 ELSE 0

\* [client.send(message) for client in self.clients]
SendList_reserialised(cl, t) == { <<client, json_dumps(<<client, t>>)>> : client \in cl }
SendList(cl, t) == { <<client, json_dumps(t)>> : client \in cl }

\* the dict `telemetry` as it reads when it is serialised: its 'settings'
\* entry is self.settings itself, not a copy
AsRead(t, st) == [t EXCEPT !.settings = st]

\* MQTTCloudClient.publish_telemetry(data); sink is what client.publish does:
\* "ok", "ConnectionError" or "error" (any other exception)
publish_telemetry(m, data, sink) ==
    IF m.client /\ m.connected
    THEN [mqtt |-> IF sink = "ConnectionError" THEN [m EXCEPT !.connected = FALSE]
                   ELSE m,
          published |-> <<json_dumps(data)>>]
    ELSE [mqtt |-> m, published |-> <<>>]

\* `if self.mqtt.connected: self.mqtt.publish_telemetry(telemetry)`
CloudStep_unguarded(m, data, sink) ==
    [mqtt |-> m, published |-> <<json_dumps(data)>>]

CloudStep(m, data, sink) ==
    IF m.connected THEN publish_telemetry(m, data, sink)
    ELSE [mqtt |-> m, published |-> <<>>]

SinkOutcomes ==
    IF mqtt.connected THEN {"ok", "ConnectionError", "error"} ELSE {"ok"}

\* where the loop goes after its cloud step: whatever the step raised is
\* caught and logged, and the iteration goes on to `await asyncio.sleep(1.0)`
AfterCloud_fatal(sink) == IF sink = "ok" THEN "sleep" ELSE "ended"

AfterCloud(sink) == "sleep"

\* broadcast_telemetry, from the loop test to the first await: collect,
\* serialise and start one send per registered client; with no client, or when
\* collect_telemetry raises, the iteration goes straight on to the cloud sink
\* and its sleep
TickBody(ci) ==
    /\ running /\ bpc = "wake"
    /\ gps.movement_step < MaxStep
    /\ Collect(ci)
    /\ LET c == collect_telemetry(ci)
       IN  IF ~c.raised /\ clients # {}
           THEN /\ bpc' = "sending" /\ targets' = clients
                /\ sends' = SendList(clients, c.telemetry)
                /\ calls' = [collect |-> 1, dumps |-> Serialisations(clients)]
                /\ published' = <<>> /\ UNCHANGED mqtt
           ELSE /\ targets' = {}
                /\ sends' = {}
                /\ calls' = [collect |-> 1,
                             dumps |-> IF c.raised THEN 0
                                       ELSE Serialisations(clients)]
                /\ IF c.raised
                   THEN bpc' = "sleep" /\ published' = <<>> /\ UNCHANGED mqtt
                   ELSE \E sink \in SinkOutcomes :
                          LET p == CloudStep(mqtt, AsRead(c.telemetry, settings), sink)
                          IN  /\ mqtt' = p.mqtt /\ published' = p.published
                              /\ bpc' = AfterCloud(sink)
    /\ results' = [ok |-> {}, fail |-> {}]
    /\ UNCHANGED <<fnVars, cmdVars, connVars, running, asked, disposed>>

\* one client.send(message) of the gather completes
SendComplete(c) ==
    /\ bpc = "sending"
    /\ c \in targets \ (results.ok \cup results.fail)
    /\ results' = IF conn[c] \in {"acking", "open"}
                  THEN [results EXCEPT !.ok = @ \cup {c}]
                  ELSE [results EXCEPT !.fail = @ \cup {c}]
    /\ wire' = ws_send(wire, c, "telemetry")
    /\ asked' = IF conn[c] \in {"acking", "open"}
                THEN Receives(asked, c, "telemetry", "")
                ELSE asked
    /\ UNCHANGED <<parkVars, fnVars, devVars, cmdVars, clients, conn,
                   bpc, telemetry, drv, targets, sends, calls, running,
                   mqtt, published, disposed>>

\* the gather returns: the results are looked at, the snapshot is offered to
\* the cloud sink and the iteration goes to sleep
GatherDone ==
    /\ bpc = "sending"
    /\ targets = results.ok \cup results.fail
    /\ clients' = AfterGather(clients, results.fail)
    /\ \E sink \in SinkOutcomes :
          LET p == CloudStep(mqtt, AsRead(telemetry[1], settings), sink)
          IN  /\ mqtt' = p.mqtt /\ published' = p.published
              /\ bpc' = AfterCloud(sink)
    /\ UNCHANGED <<parkVars, fnVars, devVars, cmdVars, conn, wire,
                   telemetry, drv, targets, results, sends, calls, running,
                   asked, disposed>>

\* await asyncio.sleep(1.0)
Sleep ==
    /\ bpc = "sleep"
    /\ bpc' = "wake"
    /\ TimePasses(10)
    /\ UNCHANGED <<fnVars, devVars, cmdVars, connVars,
                   telemetry, drv, targets, results, sends, calls, running, envVars>>

\* the server on a development host, with one client that sends every kind
\* of message
InitDesktop == Init /\ ~using_real

Next ==
    \/ Start
    \/ \E c \in Senders, ack_ok \in BOOLEAN : Connect(c, ack_ok)
    \/ \E c \in Senders, i \in CommandInputs : Command(c, i[1], i[2])
    \/ \E ci \in TickInputs : TickBody(ci)
    \/ \E c \in Conns : SendComplete(c)
    \/ GatherDone
    \/ Sleep

Spec == InitDesktop /\ [][Next]_vars

\* the server with several clients that come and go and send a few messages
BroadcastMessages ==
    { BadJson,
      Dict([EmptyData EXCEPT !.action = Str("drive_warp")]),
      Dict([EmptyData EXCEPT !.action = Str("set_brightness"), !.value = Num(75)]),
      Dict([EmptyData EXCEPT !.action = Str("play_music")]) }

NextBroadcast ==
    \/ Start
    \/ \E c \in Conns, ack_ok \in BOOLEAN : Connect(c, ack_ok)
    \/ \E c \in Conns : TransportBreak(c)
    \/ \E c \in Conns : HandlerEnd(c)
    \/ \E c \in Conns, m \in BroadcastMessages : Command(c, m, 1)
    \/ \E ci \in TickInputs : TickBody(ci)
    \/ \E c \in Conns : SendComplete(c)
    \/ GatherDone
    \/ Sleep

SpecBroadcast == InitDesktop /\ [][NextBroadcast]_vars

\* the same server with the acknowledgement's send as a step of its own, so
\* that a tick may start while a handler waits for it
LifecycleMessages ==
    { Dict([EmptyData EXCEPT !.action = Str("drive_warp")]),
      Dict([EmptyData EXCEPT !.action = Str("play_music")]) }

NextLifecycle ==
    \/ Start
    \/ \E c \in Conns : HandlerStart(c)
    \/ \E c \in Conns, ack_ok \in BOOLEAN : AckDone(c, ack_ok)
    \/ \E c \in Conns : TransportBreak(c)
    \/ \E c \in Conns : HandlerEnd(c)
    \/ \E c \in Senders, m \in LifecycleMessages : Command(c, m, 1)
    \/ \E ci \in TickInputs : TickBody(ci)
    \/ \E c \in Conns : SendComplete(c)
    \/ GatherDone
    \/ Sleep

SpecLifecycle == InitDesktop /\ [][NextLifecycle]_vars

\* the server with a client that sends a command and waits for what comes
\* next, as backend/test_connection.py does, while the broadcast loop runs
Handle(c) == Len(asked[c]) = 1 /\ Command(c, asked[c][1], 1)

NextReply ==
    \/ Start
    \/ \E c \in Senders, ack_ok \in BOOLEAN : Connect(c, ack_ok)
    \/ \E c \in Senders, m \in LifecycleMessages : ClientSends(c, m)
    \/ \E c \in Senders : Handle(c)
    \/ \E ci \in TickInputs : TickBody(ci)
    \/ \E c \in Conns : SendComplete(c)
    \/ GatherDone
    \/ Sleep

SpecReply == InitDesktop /\ [][NextReply]_vars

\* the server with several clients that set the same key and report a fix
\* while the broadcast loop runs
RaceMessages ==
    { Dict([EmptyData EXCEPT !.action = Str("set_brightness"), !.value = Num(75)]),
      Dict([EmptyData EXCEPT !.action = Str("set_brightness"), !.value = Num(30)]),
      Dict([EmptyData EXCEPT !.action = Str("update_gps"),
                             !.latitude = Num(ClientFix.latitude),
                             !.longitude = Num(ClientFix.longitude)]) }

NextRace ==
    \/ Start
    \/ \E c \in Conns, ack_ok \in BOOLEAN : Connect(c, ack_ok)
    \/ \E c \in Conns, m \in RaceMessages : Command(c, m, 1)
    \/ \E ci \in TickInputs : TickBody(ci)
    \/ \E c \in Conns : SendComplete(c)
    \/ GatherDone
    \/ Sleep

SpecRace == InitDesktop /\ [][NextRace]_vars

\* MQTTCloudClient.connect(broker), the optional step of start(): the paho
\* client is created and its network loop started
MqttConnect ==
    /\ running /\ ~mqtt.client
    /\ mqtt' = [mqtt EXCEPT !.client = TRUE]
    /\ UNCHANGED <<parkVars, fnVars, devVars, cmdVars, connVars, tickVars,
                   running, asked, published, disposed>>

\* MQTTCloudClient._on_connect(rc) and _on_disconnect, called by that loop
OnConnect(rc) ==
    /\ mqtt.client /\ ~mqtt.connected
    /\ mqtt' = [mqtt EXCEPT !.connected = (rc = 0)]
    /\ UNCHANGED <<parkVars, fnVars, devVars, cmdVars, connVars, tickVars,
                   running, asked, published, disposed>>

OnDisconnect ==
    /\ mqtt.client /\ mqtt.connected
    /\ mqtt' = [mqtt EXCEPT !.connected = FALSE]
    /\ UNCHANGED <<parkVars, fnVars, devVars, cmdVars, connVars, tickVars,
                   running, asked, published, disposed>>

\* the server with the cloud sink enabled and one client that changes a setting
CloudMessages ==
    { Dict([EmptyData EXCEPT !.action = Str("set_brightness"), !.value = Num(75)]) }

NextCloud ==
    \/ Start
    \/ MqttConnect
    \/ \E rc \in {0, 5} : OnConnect(rc)
    \/ OnDisconnect
    \/ \E c \in Senders, ack_ok \in BOOLEAN : Connect(c, ack_ok)
    \/ \E c \in Senders, m \in CloudMessages : Command(c, m, 1)
    \/ \E ci \in TickInputs : TickBody(ci)
    \/ \E c \in Conns : SendComplete(c)
    \/ GatherDone
    \/ Sleep

SpecCloud == InitDesktop /\ [][NextCloud]_vars

\* telemetry_task.cancel(): CancelledError is raised at the await the loop
\* stands at, and its handler leaves the loop
CancelTask_forgotten(pc) == pc
CancelTask(pc) == "cancelled"

\* the finally block of start(), reached on every way out of its wait:
\* running = False, telemetry_task.cancel(), mqtt.disconnect()
Shutdown ==
    /\ running
    /\ running' = FALSE
    /\ bpc' = CancelTask(bpc)
    /\ UNCHANGED <<parkVars, fnVars, devVars, cmdVars, connVars,
                   telemetry, drv, targets, results, sends, calls, envVars>>

\* the server, on either kind of host, until it is shut down
NextShutdown ==
    \/ Start
    \/ \E c \in Conns, ack_ok \in BOOLEAN : Connect(c, ack_ok)
    \/ \E ci \in TickInputs : TickBody(ci)
    \/ \E c \in Conns : SendComplete(c)
    \/ GatherDone
    \/ Sleep
    \/ Shutdown

SpecShutdown == Init /\ [][NextShutdown]_vars

\* the server with a client whose sends may stay pending for ever: the event
\* loop goes on running every task that can run, but the transport of
\* SlowClient need not ever accept what it is sent
SlowClient == MaxConns

NextSlow ==
    \/ Start
    \/ \E c \in Conns, ack_ok \in BOOLEAN : Connect(c, ack_ok)
    \/ \E ci \in TickInputs : TickBody(ci)
    \/ \E c \in Conns : SendComplete(c)
    \/ GatherDone
    \/ Sleep

SpecSlow == InitDesktop /\ [][NextSlow]_vars

FairSpecSlow ==
    /\ SpecSlow
    /\ WF_vars(Start)
    /\ WF_vars(\E ci \in TickInputs : TickBody(ci))
    /\ WF_vars(\E c \in Conns \ {SlowClient} : SendComplete(c))
    /\ WF_vars(GatherDone)
    /\ WF_vars(Sleep)

\* the server with the cloud sink, clients whose transport breaks, and a
\* shutdown; the event loop runs every step of the broadcast task that can
\* run, and every send that was started completes or raises
NextLoop ==
    \/ Start
    \/ MqttConnect
    \/ \E rc \in {0, 5} : OnConnect(rc)
    \/ OnDisconnect
    \/ \E c \in Conns, ack_ok \in BOOLEAN : Connect(c, ack_ok)
    \/ \E c \in Conns : TransportBreak(c)
    \/ \E ci \in TickInputs : TickBody(ci)
    \/ \E c \in Conns : SendComplete(c)
    \/ GatherDone
    \/ Sleep
    \/ Shutdown

SpecLoop == InitDesktop /\ [][NextLoop]_vars

FairSpecLoop ==
    /\ SpecLoop
    /\ WF_vars(\E ci \in TickInputs : TickBody(ci))
    /\ WF_vars(\E c \in Conns : SendComplete(c))
    /\ WF_vars(GatherDone)
    /\ WF_vars(Sleep)

----------------------------------------------------------------------------
(* The position module on its own, read again and again *)

GpsJitter == {-1000, 0, 1000}

GpsReadInputs ==
    [nlat : GpsJitter, nlon : GpsJitter, altitude : {2356}, satellites : {9},
     speed_gps : {421}]

GpsRead ==
    /\ gps.movement_step < MaxGpsReads
    /\ \E gi \in GpsReadInputs :
          LET r == gps_read(gps, gi)
          IN  /\ gps' = r.gps
              /\ drv' = [drv EXCEPT !.gps = <<r.out>>]
    /\ UNCHANGED <<parkVars, fnVars, bluetooth, cmdVars, connVars, bpc, telemetry,
                   targets, results, sends, calls, running, envVars>>

NextGps == GpsRead

SpecGps == InitDesktop /\ [][NextGps]_vars

----------------------------------------------------------------------------
(* The media controller on its own: the status is read once per collect
   cycle, and the media commands arrive between the cycles *)

MediaStatus ==
    /\ LET r == get_status(bluetooth)
       IN  /\ bluetooth' = r.bluetooth
           /\ drv' = [drv EXCEPT !.media = <<r.out>>]
    /\ UNCHANGED <<parkVars, fnVars, gps, cmdVars, connVars, bpc, telemetry,
                   targets, results, sends, calls, running, envVars>>

MediaPlay ==
    /\ bluetooth' = bt_play(bluetooth)
    /\ UNCHANGED <<parkVars, fnVars, gps, cmdVars, connVars, tickVars, running, envVars>>

MediaPause ==
    /\ bluetooth' = bt_pause(bluetooth)
    /\ UNCHANGED <<parkVars, fnVars, gps, cmdVars, connVars, tickVars, running, envVars>>

MediaNext(n) ==
    /\ bluetooth' = bt_next_track(bluetooth, n)
    /\ UNCHANGED <<parkVars, fnVars, gps, cmdVars, connVars, tickVars, running, envVars>>

MediaPrevious(n) ==
    /\ bluetooth' = bt_previous_track(bluetooth, n)
    /\ UNCHANGED <<parkVars, fnVars, gps, cmdVars, connVars, tickVars, running, envVars>>

NextMedia ==
    \/ MediaStatus
    \/ MediaPlay
    \/ MediaPause
    \/ \E n \in TrackNumbers : MediaNext(n)
    \/ \E n \in TrackNumbers : MediaPrevious(n)

SpecMedia == InitDesktop /\ [][NextMedia]_vars

----------------------------------------------------------------------------
(* The simulated parking module read once a tick, as the broadcast loop does,
   while wall-clock time passes *)

MockRead == ParkingReadFrom(CollectMockInputs)

NextMock == MockRead \/ Tick

SpecMock == InitDesktop /\ [][NextMock]_vars

FairSpecMock == SpecMock /\ WF_vars(MockRead) /\ WF_vars(Tick)

----------------------------------------------------------------------------
(* The simulated parking module driven method by method: besides read(),
   _mock_distance is called on its own, which is the only way the phase
   leaves 0 *)

MockCallInputs ==
    [hit : {FALSE}, ul : 0..RandGrain, ur : 0..RandGrain,
     temp : {Num(235)}, hum : {Num(480)}, crit : {FALSE}]

MockReadCall == ParkingReadFrom(MockCallInputs)

\* a direct call of _mock_distance(sensor_id); its return value is dropped
MockDistanceCall ==
    \E sensor_id \in {"rear_left", "rear_right"}, u \in 0..RandGrain :
        LET d == _mock_distance(mock_phase, mock_age, sensor_id, u)
        IN  /\ mock_phase' = d.phase
            /\ mock_age' = d.age
            /\ UNCHANGED <<using_real, dht_age, dht_cached_temp, dht_cached_hum,
                           dht_hw_reads, park_out>>
            /\ UNCHANGED <<fnVars, devVars, cmdVars, connVars, tickVars, running, envVars>>

NextMockCalls == MockReadCall \/ MockDistanceCall \/ Tick

SpecMockCalls == InitDesktop /\ [][NextMockCalls]_vars

----------------------------------------------------------------------------
(* The simulated parking module with its motion draw: read() with either
   outcome of random.random() < 0.15, the phase driven as above.  No
   statement of the simulated path of read() can raise. *)

MotionInputs ==
    [hit : BOOLEAN, ul : {0, RandGrain}, ur : {0},
     temp : {Num(235)}, hum : {Num(480)}, crit : {FALSE}]

MotionRead == ParkingReadFrom(MotionInputs)

NextMotion == MotionRead \/ MockDistanceCall \/ Tick

SpecMotion == InitDesktop /\ [][NextMotion]_vars

----------------------------------------------------------------------------
(* Properties *)

\* the settings key each setter command is about
SettingOf(action) ==
    CASE action = Str("set_charge_limit") -> "charge_limit"
      [] action = Str("set_regen_level") -> "regen_level"
      [] action = Str("set_drive_mode") -> "drive_mode"
      [] action = Str("set_brightness") -> "brightness"
      [] action = Str("set_theme") -> "light_theme"
      [] action = Str("toggle_predictions") -> "predictions_on"
      [] action = Str("set_twin_mode") -> "twin_mode"

SetterActions == { Str(a) : a \in Setters }

\* a step that handles one inbound message
CommandStep == last_msg' # last_msg

\* the step of a broadcast iteration that calls collect_telemetry
CollectStep == bpc = "wake" /\ bpc' # "wake"

\* the message is not valid JSON, is not an object, or its action is missing,
\* empty or not an allow-listed name
NotAccepted(m) ==
    \/ m.kind # "dict"
    \/ m.data.action \in {Missing, None, Str("")}
    \/ m.data.action \notin { Str(a) : a \in VALID_COMMANDS }

\* C1: handling a message that is not valid JSON, or whose action is missing,
\* empty or not allow-listed, leaves the settings, the media state, the GPS
\* fix and step counter and the client set as they were.
C1_RejectedChangesNothing ==
    [][ (CommandStep /\ NotAccepted(last_msg'[2]))
            => UNCHANGED <<settings, bluetooth, gps, clients>> ]_vars

\* a rejected message was answered with an error after a setter had changed
\* the settings
C1_Witness ==
    /\ last_msg # <<>> /\ NotAccepted(last_msg[2])
    /\ reply # <<>> /\ reply[1].msg.type = "error"
    /\ settings # DefaultSettings
    /\ clients # {}

\* C2 (as claimed): when the gather of a tick returns, the clients whose send
\* failed have been removed from the client set, and only they.
C2_FailedClientsRemoved ==
    [][ (bpc = "sending" /\ bpc' = "sleep")
            => clients' = clients \ results.fail ]_vars

NoFault == \A k \in DOMAIN drv : drv[k] # <<>>

FromVehicle(t, v) ==
    /\ t.speed = v.speed /\ t.range_km = v.range_km
    /\ t.battery_soc = v.battery_soc /\ t.battery_voltage = v.battery_voltage
    /\ t.battery_current = v.battery_current
    /\ t.motor_rpm = v.motor_rpm /\ t.motor_temp = v.motor_temp
    /\ t.power_kw = v.power_kw

FromParking(t, p) ==
    /\ t.parking.reverse_engaged = p.reverse_engaged
    /\ t.parking.motion_detected = p.motion_detected
    /\ t.ambient_temp = p.temperature_c /\ t.humidity = p.humidity_pct
    /\ t.cabin.temperature_c = p.temperature_c
    /\ t.cabin.humidity_pct = p.humidity_pct

\* C3 (as claimed): a cycle in which every driver call returned normally
\* yields the snapshot built from what the drivers returned.
C3_NormalCycleSnapshot ==
    (telemetry # <<>> /\ NoFault) =>
        /\ FromVehicle(telemetry[1], drv.vehicle[1])
        /\ telemetry[1].gps = drv.gps[1]
        /\ telemetry[1].media = drv.media[1]
        /\ FromParking(telemetry[1], drv.parking[1])

\* C4 (as claimed): in a cycle in which exactly one driver call raised, the
\* fields of that source are neutral and the fields of every other source are
\* what that source returned.
C4_OneFaultSnapshot ==
    (telemetry # <<>> /\ Cardinality({ k \in DOMAIN drv : drv[k] = <<>> }) = 1) =>
        LET t == telemetry[1]
        IN  /\ FromVehicle(t, IF drv.vehicle = <<>> THEN NeutralVehicle
                              ELSE drv.vehicle[1])
            /\ t.gps = (IF drv.gps = <<>> THEN NeutralGps ELSE drv.gps[1])
            /\ t.media = (IF drv.media = <<>> THEN NeutralMedia ELSE drv.media[1])
            /\ IF drv.parking = <<>>
               THEN t.parking = NeutralParking /\ t.ambient_temp = None
                    /\ t.humidity = None
               ELSE FromParking(t, drv.parking[1])

\* C5: every broadcast iteration gets a message of type 'telemetry' from
\* collect_telemetry, whatever failed while composing it, and sends it to the
\* clients registered at that moment instead of skipping the tick.
C5_TickAlwaysSendsTelemetry ==
    [][ CollectStep =>
            /\ telemetry' # <<>>
            /\ telemetry'[1].type = "telemetry"
            /\ clients # {} => (bpc' = "sending" /\ targets' = clients) ]_vars

\* a tick whose snapshot is the fallback is being sent to two clients
C5_Witness ==
    /\ bpc = "sending" /\ Cardinality(targets) = 2
    /\ telemetry # <<>> /\ telemetry[1] = FallbackTelemetry(settings)
    /\ results.ok # {}

\* C6: a setter carrying value v is answered with a 'response' naming the
\* action, status 'success' and v; the key holds v afterwards; a key changes
\* only by a setter for that key; and every collected snapshot shows the
\* settings as they are at that moment.
C6_SetterVisibleInSnapshots ==
    [][ /\ (CommandStep /\ last_msg'[2].kind = "dict"
              /\ last_msg'[2].data.action \in SetterActions
              /\ last_msg'[2].data.value # Missing)
            => LET c == last_msg'[1]
                   a == last_msg'[2].data.action
                   v == last_msg'[2].data.value
               IN  /\ settings'[SettingOf(a)] = v
                   /\ conn[c] = "open" =>
                        reply' = <<[to |-> c,
                                    msg |-> [type |-> "response", action |-> a[2],
                                             status |-> "success", value |-> v,
                                             message |-> <<>>]]>>
        /\ \A k \in SettingKeys :
              settings'[k] # settings[k]
                => /\ CommandStep
                   /\ last_msg'[2].data.action \in SetterActions
                   /\ SettingOf(last_msg'[2].data.action) = k
        /\ CollectStep => telemetry'[1].settings = settings' ]_vars

\* brightness was set to 75, the reply echoed it and a snapshot collected
\* afterwards shows it
C6_Witness ==
    /\ settings.brightness = Num(75)
    /\ reply # <<>> /\ reply[1].msg.action = "set_brightness"
    /\ reply[1].msg.value = Num(75)
    /\ telemetry # <<>> /\ telemetry[1].settings.brightness = Num(75)

Reported(level) ==
    /\ park_out # <<>>
    /\ \/ park_out[1].rear_left_warning = Str(level)
       \/ park_out[1].rear_right_warning = Str(level)

\* C7 (as claimed): in simulated mode, with reads repeated while time passes,
\* each of the four warning levels is eventually reported for a channel.
C7_AllLevelsReported ==
    (~using_real) =>
        /\ <>Reported("clear")
        /\ <>Reported("low")
        /\ <>Reported("medium")
        /\ <>Reported("high")

\* C8: when reverse is not engaged, read() reports no distance and no warning
\* for either channel, and the parking section of the snapshot has none.
C8_NoReverseNoProximity ==
    /\ (park_out # <<>> /\ ~park_out[1].reverse_engaged) =>
          /\ park_out[1].rear_left_distance_cm = None
          /\ park_out[1].rear_right_distance_cm = None
          /\ park_out[1].rear_left_warning = None
          /\ park_out[1].rear_right_warning = None
    /\ (telemetry # <<>> /\ ~telemetry[1].parking.reverse_engaged) =>
          /\ telemetry[1].parking.distance_cm = None
          /\ telemetry[1].parking.proximity_warning = None

\* the real sensors were read with the reverse line low, inside a collect cycle
C8_Witness ==
    /\ using_real /\ park_out # <<>> /\ ~park_out[1].reverse_engaged
    /\ drv.parking # <<>> /\ telemetry # <<>>

C11_HighPhaseWarnsHigh ==
    [][ (MockReadCall /\ ~using_real /\ park_out'[1].reverse_engaged
            /\ mock_phase' = 3)
          => /\ park_out'[1].rear_left_warning = Str("high")
             /\ park_out'[1].rear_right_warning = Str("high") ]_vars

\* the cached pair is present
CacheValid == dht_cached_temp # None /\ dht_cached_hum # None

\* the pair the last read() returned is the cached pair
ReturnedCache ==
    /\ park_out # <<>>
    /\ park_out[1].temperature_c = dht_cached_temp
    /\ park_out[1].humidity_pct = dht_cached_hum

\* C12: a read issued less than 2.5 s after the timestamp of the last
\* successful read makes no hardware attempt, leaves the cache and its
\* timestamp alone and returns the cached pair; and as long as the window
\* lasts, the pair last returned is the pair of that successful read, so two
\* reads in one window return the same values.
C12_FreshReadServesCache ==
    /\ [][ (DhtRead /\ dht_age < DhtMinSpacing)
             => /\ dht_hw_reads' = 0
                /\ CacheValid
                /\ park_out'[1].temperature_c = dht_cached_temp
                /\ park_out'[1].humidity_pct = dht_cached_hum
                /\ UNCHANGED <<dht_cached_temp, dht_cached_hum, dht_age>> ]_vars
    /\ [](dht_age < DhtMinSpacing => (CacheValid /\ ReturnedCache))

\* 0.8 s after a read that succeeded on its second attempt, a read was served
\* from the cache
C12_Witness ==
    /\ using_real /\ dht_hw_reads = 0
    /\ dht_age = 2 * DhtBackoff + 4
    /\ park_out # <<>> /\ park_out[1].temperature_c = Num(262)
    /\ park_out[1].humidity_pct = Num(455)

\* C13: a read never turns a present cached pair into an absent one; every
\* read returns the cached pair as it is after the read; the cache changes
\* only to the pair of an attempt that delivered both values; and a read
\* returns an absent temperature or humidity only while no attempt has ever
\* been accepted.
C13_CacheNeverLost ==
    [][ DhtRead =>
          /\ CacheValid => (CacheValid' /\ ReturnedCache')
          /\ ReturnedCache'
          /\ <<dht_cached_temp', dht_cached_hum'>> # <<dht_cached_temp, dht_cached_hum>>
                => /\ dht_hw_reads' > 0
                   /\ \E a \in {DhtOkA, DhtOkB} :
                        dht_cached_temp' = a.temp /\ dht_cached_hum' = a.hum
          /\ (park_out'[1].temperature_c = None \/ park_out'[1].humidity_pct = None)
                => (~CacheValid /\ dht_cached_temp' = None /\ dht_cached_hum' = None)
      ]_vars

\* the pair read at a second attempt is still returned by a later read whose
\* three attempts all failed
C13_Witness ==
    /\ using_real /\ dht_hw_reads = DhtMaxAttempts
    /\ dht_cached_temp = Num(262) /\ dht_cached_hum = Num(455)
    /\ park_out # <<>> /\ park_out[1].temperature_c = Num(262)
    /\ park_out[1].humidity_pct = Num(455)

\* an attempt that delivered a temperature and a humidity without raising
BothPresent(a) == ~a.exc /\ a.temp # None /\ a.hum # None

\* C14: a stale read makes between one and three hardware attempts; it stops
\* at the first attempt that delivers both values, caches and returns that
\* pair and stamps it with the time the read began; when no attempt delivers
\* both, it makes exactly three attempts and leaves the cache and its
\* timestamp alone.
C14_StaleReadAttempts ==
    [][ \A att \in DhtAttemptSeqs :
          (DhtReadWith(att) /\ ~(dht_age < DhtMinSpacing /\ CacheValid))
            => /\ dht_hw_reads' \in 1..DhtMaxAttempts
               /\ IF \E i \in 1..DhtMaxAttempts : BothPresent(att[i])
                  THEN /\ BothPresent(att[dht_hw_reads'])
                       /\ \A j \in 1..(dht_hw_reads' - 1) : ~BothPresent(att[j])
                       /\ dht_cached_temp' = att[dht_hw_reads'].temp
                       /\ dht_cached_hum' = att[dht_hw_reads'].hum
                       /\ dht_age' = (dht_hw_reads' - 1) * DhtBackoff
                  ELSE /\ dht_hw_reads' = DhtMaxAttempts
                       /\ UNCHANGED <<dht_cached_temp, dht_cached_hum>>
                       /\ dht_age' >= dht_age
      ]_vars

\* a stale read was answered at its second attempt, after a first that raised
C14_Witness ==
    /\ using_real /\ dht_hw_reads = 2 /\ dht_age = DhtBackoff
    /\ dht_cached_temp = Num(262) /\ dht_cached_hum = Num(455)

\* C15 (as claimed): a message whose action is allow-listed, arriving on an
\* open connection, is answered with one message to that connection, of type
\* 'response', naming the action and carrying a status, whatever its other
\* fields are.
C15_AcceptedGetsResponse ==
    [][ (CommandStep /\ ~NotAccepted(last_msg'[2])
            /\ conn[last_msg'[1]] = "open")
          => /\ Len(reply') = 1
             /\ reply'[1].to = last_msg'[1]
             /\ reply'[1].msg.type = "response"
             /\ reply'[1].msg.action = last_msg'[2].data.action[2]
             /\ reply'[1].msg.status \in {"success", "failed", "unknown"} ]_vars

\* C16 (as claimed): a message that is not valid JSON, or whose action is not
\* allow-listed, arriving on an open connection, is answered with one message
\* to that connection, of type 'error'; when the message is a JSON object the
\* text is 'Invalid action: ' followed by the action it carries.
C16_RejectedGetsError ==
    [][ (CommandStep /\ NotAccepted(last_msg'[2])
            /\ conn[last_msg'[1]] = "open")
          => /\ Len(reply') = 1
             /\ reply'[1].to = last_msg'[1]
             /\ reply'[1].msg.type = "error"
             /\ last_msg'[2].kind = "dict"
                  => reply'[1].msg.message =
                        <<"Invalid action: ",
                          Get(last_msg'[2].data, "action", None)>> ]_vars

----------------------------------------------------------------------------
(* The fan-out of one broadcast tick *)

\* the clients the current gather was given a send for
Recipients == { p[1] : p \in sends }

\* the sends of the current gather that have completed
Completed == results.ok \cup results.fail

\* a step in which the gather returns
GatherStep == bpc = "sending" /\ bpc' = "sleep"

\* the step that collects calls collect_telemetry once and hands every client
\* registered at that moment one send of the one serialised snapshot
OneCollectFanOut ==
    CollectStep =>
        /\ calls'.collect = 1
        /\ gps'.movement_step = gps.movement_step + 1
        /\ telemetry' # <<>>
        /\ sends' = { <<c, json_dumps(telemetry'[1])>> : c \in clients }
        /\ \A p, q \in sends' : p[2] = q[2]

\* between two collects the recipients and the payload stay as they are, each
\* send completes at most once, and the gather returns when all have
SendsSettle ==
    /\ ~CollectStep => sends' = sends /\ calls' = calls
    /\ (~CollectStep /\ results' # results) =>
          \E c \in Recipients \ Completed :
              /\ results'.ok \cup results'.fail = Completed \cup {c}
              /\ results'.ok \cap results'.fail = {}
    /\ GatherStep => Completed = Recipients

----------------------------------------------------------------------------
(* Registration of the connections *)

\* handle_client has started for c and has not ended
HandlerRunning(c) == conn[c] \in {"acking", "open", "broken"}

\* a step in which the handler of c ends
HandlerEnds(c) == conn[c] # "closed" /\ conn'[c] = "closed"

\* a step in which the handler of c starts
HandlerStarts(c) == conn[c] = "new" /\ conn'[c] # "new"

\* C18: a connection is registered exactly while its handler runs; whatever
\* ends the handler unregisters it; an unregistered connection is never a
\* recipient of a tick that starts later; and unregistering leaves the tick
\* in progress, with its recipients and completed sends, as it was
C18_RegisteredWhileHandled ==
    /\ [](clients = { c \in Conns : HandlerRunning(c) })
    /\ [][ /\ \A c \in Conns : HandlerEnds(c) => c \notin clients'
           /\ \A c \in Conns : conn[c] = "closed" =>
                  /\ conn'[c] = "closed" /\ c \notin clients'
                  /\ CollectStep => c \notin Recipients' /\ c \notin targets'
           /\ (\E c \in Conns : HandlerEnds(c)) =>
                  UNCHANGED <<bpc, telemetry, targets, results, sends>> ]_vars

\* the handler of client 1 has ended during a gather for both clients, and
\* the send to client 2 of that gather has completed after it
C18_Witness ==
    /\ conn[1] = "closed" /\ clients = {2}
    /\ bpc = "sending" /\ Recipients = {1, 2}
    /\ results.ok = {2} /\ results.fail = {}

\* C19: a connection whose handler has started has been sent exactly one
\* message of type 'connection', before any other message; a connection
\* whose handler has not started has been sent nothing
C19_AckFirstAndOnce ==
    \A c \in Conns :
        IF conn[c] = "new"
        THEN wire[c] = [first |-> "", acks |-> 0]
        ELSE wire[c] = [first |-> "connection", acks |-> 1]

\* a telemetry send to client 1 has completed while the send of its
\* acknowledgement was still awaited
C19_Witness ==
    /\ conn[1] = "acking" /\ 1 \in results.ok
    /\ wire[1] = [first |-> "connection", acks |-> 1]

----------------------------------------------------------------------------
(* Replies and the broadcast *)

\* C21: the first message a client receives after sending a command is the
\* reply to it: one with status 'success' for play_music, one of type 'error'
\* for a message that is not accepted
C21_ReplyComesNext ==
    \A c \in Conns :
        Len(asked[c]) = 2 =>
            /\ asked[c][1].data.action = Str("play_music")
                  => asked[c][2].status = "success"
            /\ NotAccepted(asked[c][1]) => asked[c][2].type = "error"

----------------------------------------------------------------------------
(* The cloud sink *)

\* a step in which an iteration of the broadcast loop passes its cloud step
CloudPoint ==
    /\ running'
    /\ \/ bpc = "wake" /\ bpc' # "wake" /\ clients = {}
       \/ bpc = "sending" /\ bpc' # "sending"

\* C22: an iteration hands its snapshot to the sink exactly when the sink
\* reports itself connected at that moment; whatever the sink does with it,
\* the sends of that tick have all completed before, their results stay, and
\* the loop goes on to its sleep and the next tick
C22_PublishedIffConnected ==
    [][ CloudPoint =>
          /\ (published' # <<>>) <=> mqtt.connected
          /\ published' # <<>> => published'[1] = json_dumps(AsRead(telemetry'[1], settings))
          /\ Completed = Recipients /\ results' = results
          /\ bpc' = "sleep" ]_vars

\* the sink has failed with a connection error on a snapshot that the client
\* had been sent before
C22_Witness ==
    /\ bpc = "sleep" /\ published # <<>> /\ results.ok = {1}
    /\ mqtt = [client |-> TRUE, connected |-> FALSE]

\* C23: the snapshot handed to the sink in a tick has the content of the
\* payload sent to the clients in that tick
C23_SinkGetsClientPayload ==
    (published # <<>> /\ sends # {}) =>
        \A p \in sends : p[2] = published[1]

----------------------------------------------------------------------------
(* Shutdown *)

\* start() has run and its finally block has been passed
Stopped == ~running /\ bpc # "init"

\* C24: once the server is shut down running is false and stays false, the
\* broadcast loop is cancelled, and no snapshot is collected, serialised,
\* sent or published any more, wherever the loop stood
C24_ShutdownStopsBroadcast ==
    /\ [](Stopped => bpc = "cancelled")
    /\ [][ Stopped =>
              /\ Stopped'
              /\ UNCHANGED <<gps, telemetry, calls, sends, results, wire,
                             published>> ]_vars
    /\ [][ (running /\ ~running') => UNCHANGED <<telemetry, results, wire>> ]_vars

\* the loop was cancelled while the send to client 2 was still pending
C24_Witness ==
    /\ Stopped /\ bpc = "cancelled"
    /\ Recipients = {1, 2} /\ Completed = {1}

\* C25: once the server is shut down, dispose() of the parking module has
\* been called
C25_ShutdownDisposes == Stopped => disposed

----------------------------------------------------------------------------
(* The position *)

\* a step that handles an update_gps message carrying latitude and longitude
FixStep ==
    /\ CommandStep
    /\ last_msg'[2].kind = "dict"
    /\ last_msg'[2].data.action = Str("update_gps")
    /\ last_msg'[2].data.latitude \notin {Missing, None}
    /\ last_msg'[2].data.longitude \notin {Missing, None}

\* the fix after one position read from fix g: one tenth of the way to the
\* waypoint the step counter selects before the read
Advanced(g) ==
    LET point_index == (g.movement_step \div 10) % 6
        target == route_points[point_index + 1]
    IN  [current_lat |-> g.current_lat + Tenth(target[1] - g.current_lat),
         current_lon |-> g.current_lon + Tenth(target[2] - g.current_lon),
         movement_step |-> g.movement_step + 1]

Near(reported, internal) ==
    reported - internal <= 1005 /\ internal - reported <= 1005

\* C27: a position read moves the internal fix one tenth of the way to the
\* waypoint with index floor(step / 10) mod 6, the step counted before the
\* read, adds one to the step counter and reports the heading (2 * new step)
\* mod 360; the jitter is in the reported coordinates only
C27_ReadAdvancesFix ==
    [][ gps'.movement_step # gps.movement_step =>
          /\ gps' = Advanced(gps)
          /\ drv'.gps[1].heading = (2 * gps'.movement_step) % 360
          /\ Near(drv'.gps[1].latitude, gps'.current_lat)
          /\ Near(drv'.gps[1].longitude, gps'.current_lon) ]_vars

\* the heading has wrapped round, the route has been gone through three
\* times, and the reported latitude carries jitter
C27_Witness ==
    /\ gps.movement_step = 181 /\ drv.gps # <<>>
    /\ drv.gps[1].heading = 2
    /\ drv.gps[1].latitude = Round6(gps.current_lat + 1000)

----------------------------------------------------------------------------
(* Faults of the real sensors *)

\* a measurement whose echo line never goes high inside the echo-start
\* window, or stays high to the end of the echo-end window
TimedOut(m) == ~m.exc /\ (~m.started \/ m.high >= EchoEndWindow)

\* a call of read() on the real sensors with input inp and no failure
\* outside the sensor helpers
RealReadOf(inp) == using_real /\ ~inp.crit /\ ParkingReadFrom({inp})

\* C28: on the real sensors, a measurement that times out in either window
\* gives an absent distance
C28_TimeoutIsAbsent ==
    [][ \A inp \in RealInputs :
          (RealReadOf(inp) /\ inp.button = "high") =>
              /\ TimedOut(inp.left) => park_out'[1].rear_left_distance_cm = None
              /\ TimedOut(inp.right) => park_out'[1].rear_right_distance_cm = None
      ]_vars

\* a distance read() reports is absent or lies in (0, 500] cm
Plausible(d) == d = None \/ (0 < d[2] /\ d[2] <= 5000)

\* C29: on the real sensors every measured distance, as returned after its
\* rounding to 0.1 cm, is absent or lies in (0, 500] cm
C29_DistanceInWindow ==
    (using_real /\ park_out # <<>>) =>
        /\ Plausible(park_out[1].rear_left_distance_cm)
        /\ Plausible(park_out[1].rear_right_distance_cm)

\* C30: read() always returns its dict; a faulty GPIO line reads as false,
\* an exception inside one measurement leaves that channel absent and the
\* other as measured, and any other failure gives the all-neutral dict
C30_ReadNeverRaises ==
    /\ [](park_out # <<>> => DOMAIN park_out[1] = DOMAIN ReadSafeDefaults)
    /\ [][ \A inp \in FaultInputs :
              ((inp.crit \/ inp.button = "fault" \/ inp.left.exc)
                 /\ ParkingReadFrom({inp})) =>
                  LET out == park_out'[1]
                  IN  /\ inp.crit => out = ReadSafeDefaults
                      /\ (~inp.crit /\ inp.button = "fault")
                            => ~out.reverse_engaged
                      /\ (~inp.crit /\ inp.button = "high" /\ inp.left.exc)
                            => /\ out.reverse_engaged
                               /\ out.rear_left_distance_cm = None
                               /\ out.rear_left_warning = None
                               /\ out.rear_right_distance_cm =
                                      _read_ultrasonic(TRUE, inp.right)
                               /\ out.motion_detected = (inp.pir = "high")
          ]_vars

\* the left measurement raised and the right one gave 30.0 cm
C30_Witness ==
    /\ using_real /\ park_out # <<>>
    /\ park_out[1].reverse_engaged
    /\ park_out[1].rear_left_distance_cm = None
    /\ park_out[1].rear_right_distance_cm = Num(300)
    /\ park_out[1].rear_right_warning = Str("low")

----------------------------------------------------------------------------
(* The simulated reverse line and motion sensor *)

\* C31: in simulated mode every read() reports reverse engaged exactly when
\* the simulator is in phase 2 or 3 as the call begins, and reports motion
\* only together with reverse engaged
C31_MockReverseFollowsPhase ==
    /\ [][ MotionRead =>
              /\ park_out'[1].reverse_engaged <=> (mock_phase \in {2, 3})
              /\ park_out'[1].motion_detected => park_out'[1].reverse_engaged
          ]_vars
    /\ []((~using_real /\ park_out # <<>> /\ park_out[1].motion_detected)
            => park_out[1].reverse_engaged)

\* a read in phase 3 reported reverse engaged with motion
C31_Witness ==
    /\ ~using_real /\ park_out # <<>> /\ mock_phase = 3
    /\ park_out[1].reverse_engaged /\ park_out[1].motion_detected

----------------------------------------------------------------------------
(* Slow clients *)

\* C32: whatever one client's send does, a tick whose sends have been started
\* goes on to its sleep, from which the next tick starts
C32_SlowClientDoesNotStall == (bpc = "sending") ~> (bpc = "sleep")

----------------------------------------------------------------------------
(* Commands and the snapshots after them *)

\* C33: the snapshot collected next after play_music shows the media as
\* playing and after pause_music as not playing, and the one collected next
\* after connect_bluetooth shows the bluetooth link and the media device as
\* connected
C33_MediaCommandVisible ==
    [][ CollectStep =>
          /\ telemetry' # <<>>
          /\ telemetry'[1].media.is_playing = bluetooth.is_playing
          /\ bluetooth.connected =>
                /\ telemetry'[1].connectivity.bluetooth
                /\ telemetry'[1].media.connected ]_vars

----------------------------------------------------------------------------
(* The documented warning levels *)

\* C34: _derive_warning maps an absent distance to the level 'clear'
C34_AbsentIsClear ==
    (warn_out # <<>> /\ warn_in = None) => warn_out[1] = Str("clear")

----------------------------------------------------------------------------
(* What a command leaves alone *)

\* C35: handling an accepted setter changes no settings key but its own and
\* neither the media state nor the GPS fix; handling any other accepted
\* command but update_gps changes neither the settings nor the GPS fix;
\* update_gps changes neither the settings nor the media state nor the step
\* counter; and the settings always have exactly their seven keys
C35_CommandChangesOwnTarget ==
    /\ [](DOMAIN settings = SettingKeys /\ Cardinality(SettingKeys) = 7)
    /\ [][ (CommandStep /\ ~NotAccepted(last_msg'[2])) =>
              LET a == last_msg'[2].data.action
              IN  /\ a \in SetterActions =>
                        /\ \A k \in SettingKeys \ {SettingOf(a)} :
                               settings'[k] = settings[k]
                        /\ UNCHANGED <<bluetooth, gps>>
                  /\ a \notin SetterActions \cup {Str("update_gps")} =>
                        UNCHANGED <<settings, gps>>
                  /\ a = Str("update_gps") =>
                        /\ UNCHANGED <<settings, bluetooth>>
                        /\ gps'.movement_step = gps.movement_step
          ]_vars

\* the charge limit was set to 90 after play_music: every other key has its
\* initial value, the media state is as play_music left it and the fix is
\* where the route began
C35_Witness ==
    /\ last_msg # <<>> /\ last_msg[2].data.action = Str("set_charge_limit")
    /\ settings = [DefaultSettings EXCEPT !.charge_limit = Num(90)]
    /\ bluetooth.is_playing
    /\ gps.current_lat = base_lat /\ gps.current_lon = base_lon

----------------------------------------------------------------------------
(* Commands of several clients *)

\* a position with one coordinate of the client's fix and the other of the
\* simulated route; the route ends at its last point, the client's fix lies
\* beyond it in both coordinates, and a reported coordinate carries jitter
Torn(lat, lon) ==
    (lat > route_points[6][1] + 1005) # (lon > route_points[6][2] + 1005)

\* a step that handles a set_brightness command
SetsBrightness == CommandStep /\ last_msg'[2].data.action = Str("set_brightness")

\* C36: with several clients sending setters for one key in any order, the
\* key holds the value of the setter handled last and changes at no other
\* step; and neither the fix nor any position read from it or shown in a
\* snapshot pairs a client's latitude with a longitude of the route, or the
\* reverse
C36_CommandsAreAtomic ==
    /\ [][ /\ SetsBrightness => settings'.brightness = last_msg'[2].data.value
           /\ settings'.brightness # settings.brightness => SetsBrightness
         ]_vars
    /\ [](~Torn(gps.current_lat, gps.current_lon))
    /\ [](drv.gps # <<>> => ~Torn(drv.gps[1].latitude, drv.gps[1].longitude))
    /\ [](telemetry # <<>> =>
            ~Torn(telemetry[1].gps.latitude, telemetry[1].gps.longitude))

\* client 2 set the brightness to 30 after a snapshot had shown the 75 set
\* before
C36_Witness ==
    /\ last_msg # <<>> /\ last_msg[1] = 2 /\ last_msg[3] = 2
    /\ last_msg[2].data.value = Num(30) /\ settings.brightness = Num(30)
    /\ telemetry # <<>> /\ telemetry[1].settings.brightness = Num(75)

----------------------------------------------------------------------------
(* The allow-list and the handlers *)

\* the 14 action names
FourteenNames ==
    {"play_music", "pause_music", "next_track", "previous_track",
     "set_volume", "set_charge_limit", "set_regen_level",
     "set_drive_mode", "set_brightness", "set_theme",
     "toggle_predictions", "set_twin_mode", "connect_bluetooth",
     "update_gps"}

\* the message is a JSON object whose action is one of the 14 names
Named(m) == m.kind = "dict" /\ m.data.action \in { Str(a) : a \in FourteenNames }

\* C37: a message on an open connection is answered with a 'response' only
\* if its action is one of the 14 names, that response never has the status
\* 'unknown', a message with one of the 14 names is never answered as an
\* invalid action, and every other message is answered with an error
C37_AllowListHandled ==
    /\ [](Cardinality(VALID_COMMANDS) = 14)
    /\ [][ (CommandStep /\ conn[last_msg'[1]] = "open") =>
              LET m == last_msg'[2]
                  r == reply'[1].msg
              IN  /\ r.type = "response" => (Named(m) /\ r.status # "unknown")
                  /\ Named(m) => r.message # <<"Invalid action: ", m.data.action>>
                  /\ ~Named(m) => r.type = "error"
          ]_vars

\* update_gps, the last name of the list, was answered with 'success'
C37_Witness ==
    /\ last_msg # <<>> /\ last_msg[2].data.action = Str("update_gps")
    /\ reply # <<>> /\ reply[1].msg.type = "response"
    /\ reply[1].msg.action = "update_gps" /\ reply[1].msg.status = "success"

----------------------------------------------------------------------------
(* The media position *)

\* C38: the media position is always between 0 and the duration, in the
\* controller and in every status it returns; reading the status adds 1 to it
\* while the track is playing and short of the duration and leaves it alone
\* otherwise; play and pause leave it alone; next_track and previous_track
\* set it to 0
C38_PositionWithinTrack ==
    /\ [](0 <= bluetooth.position /\ bluetooth.position <= TrackDuration)
    /\ [](drv.media # <<>> =>
            /\ 0 <= drv.media[1].position
            /\ drv.media[1].position <= drv.media[1].duration)
    /\ [][ MediaStatus =>
              /\ bluetooth'.position =
                    IF bluetooth.is_playing /\ bluetooth.position < TrackDuration
                    THEN bluetooth.position + 1
                    ELSE bluetooth.position
              /\ drv'.media[1].position = bluetooth'.position ]_vars
    /\ [][ (MediaPlay \/ MediaPause) =>
              bluetooth'.position = bluetooth.position ]_vars
    /\ [][ (\E n \in TrackNumbers : MediaNext(n) \/ MediaPrevious(n)) =>
              bluetooth'.position = 0 ]_vars

\* a playing track has reached its end and the status says so
C38_Witness ==
    /\ bluetooth.is_playing /\ bluetooth.position = TrackDuration
    /\ drv.media # <<>> /\ drv.media[1].position = TrackDuration
    /\ drv.media[1].is_playing

----------------------------------------------------------------------------
(* Commands with fields left out *)

\* the value each key is given by a setter that carries none
BuiltInDefault ==
    [charge_limit |-> Num(80), regen_level |-> Str("standard"),
     drive_mode |-> Str("eco"), brightness |-> Num(60),
     light_theme |-> Bool(FALSE), predictions_on |-> Bool(TRUE),
     twin_mode |-> Str("3d")]

\* a step that handles an accepted command of one of these actions
Handles(actions) ==
    /\ CommandStep /\ last_msg'[2].kind = "dict"
    /\ last_msg'[2].data.action \in actions

\* C39: a setter without a 'value' field gives its key the built-in default,
\* whatever the key held, and is answered with 'success' and that default;
\* an update_gps without latitude or without longitude leaves the fix as it
\* is and is answered with 'success'
C39_MissingFieldsDefault ==
    [][ /\ (Handles(SetterActions) /\ last_msg'[2].data.value = Missing) =>
              LET c == last_msg'[1]
                  a == last_msg'[2].data.action
                  v == BuiltInDefault[SettingOf(a)]
              IN  /\ settings'[SettingOf(a)] = v
                  /\ conn[c] = "open" =>
                        reply' = <<[to |-> c,
                                    msg |-> [type |-> "response", action |-> a[2],
                                             status |-> "success", value |-> v,
                                             message |-> <<>>]]>>
        /\ (Handles({Str("update_gps")})
              /\ (\/ last_msg'[2].data.latitude = Missing
                  \/ last_msg'[2].data.longitude = Missing)) =>
              /\ gps' = gps
              /\ conn[last_msg'[1]] = "open" =>
                    /\ reply'[1].msg.type = "response"
                    /\ reply'[1].msg.status = "success" ]_vars

\* set_brightness without a value put the brightness back to 60 after a
\* snapshot had shown 75
C39_Witness ==
    /\ last_msg # <<>> /\ last_msg[2].data.action = Str("set_brightness")
    /\ last_msg[2].data.value = Missing
    /\ settings.brightness = Num(60)
    /\ reply # <<>> /\ reply[1].msg.value = Num(60)
    /\ telemetry # <<>> /\ telemetry[1].settings.brightness = Num(75)

----------------------------------------------------------------------------
(* The broadcast loop goes on *)

\* the broadcast task is inside its loop
InLoop == bpc \in {"wake", "sending", "sleep"}

\* C40: the broadcast task leaves its loop only in a step that sets running
\* to false; and while the server runs, whatever failed in a tick, the sends
\* of the tick are followed by its sleep, the sleep by the loop test, and the
\* loop test by the next collect
C40_LoopSurvivesFailures ==
    /\ [][ (InLoop /\ ~InLoop') => (running /\ ~running') ]_vars
    /\ (bpc = "sending") ~> (bpc = "sleep" \/ ~running)
    /\ (bpc = "sleep") ~> (bpc = "wake" \/ ~running)
    /\ (bpc = "wake" /\ gps.movement_step < MaxStep) ~> (bpc # "wake" \/ ~running)

\* after a tick in which a send failed and the sink raised a connection
\* error, the loop has slept and stands at its loop test again
C40_Witness ==
    /\ running /\ bpc = "wake" /\ gps.movement_step > 0
    /\ results.fail # {}
    /\ published # <<>> /\ mqtt = [client |-> TRUE, connected |-> FALSE]

============================================================================
